---- MODULE Spec2Model ----
(***************************************************************************)
(* A model of the ALAN-2022 compiler: the chained hash table, the two-level *)
(* symbol table built on it, the per-body code emitter and the parts of the *)
(* recursive-descent parser that drive them.                                *)
(***************************************************************************)
EXTENDS Integers, Sequences, FiniteSets, TLC

VARIABLES
    pc,              \* where the process is: "run", "funcs", "fbody", "crashed", ...
    heap,            \* the HashTab objects, by handle
    alive,           \* the handles that are allocated (not yet ht_free'd)
    table,           \* symboltable.c: static HashTab *table
    saved_table,     \* symboltable.c: static HashTab *saved_table
    curr_offset,     \* symboltable.c: static unsigned int curr_offset
    st_last,         \* the last call or handler and what it returned
    closed_names,    \* the names that were in the scope a close_subroutine just released
    bodies,          \* codegen.c: static Body *bodies
    body_heap,       \* the Body objects, by handle, in the order they were malloc'd
    code,            \* codegen.c: static Code *code, the items code[0 .. ip-1]
    code_size,       \* codegen.c: static int code_size
    ip,              \* codegen.c: static int ip
    stack_depth,     \* codegen.c: int stack_depth
    max_stack_depth, \* codegen.c: int max_stack_depth
    function_name,   \* codegen.c: static char *function_name
    cg_idprop,       \* codegen.c: static IDprop *idprop
    return_type,     \* alanc.c: ValType return_type
    fd_prev,         \* alanc.c: what the stack slot of parse_funcdef's `prev' holds
    fd,              \* the header of the function definition being parsed
    decl,            \* the declarations read so far in the body being parsed
    nfuncs,          \* the number of function definitions read
    nvardefs,        \* the number of vardefs read in the body being parsed
    nstmts,          \* the number of statements read in the body being parsed
    label,           \* codegen.c: get_label's static Label label
    ctl,             \* alanc.c: the activations of parse_if / parse_while, innermost last
    src,             \* scanner.c: the characters src_file has still to deliver
    sc,              \* scanner.c: ch, column_number, last_read, position and the token
    files,           \* what the run has produced: the listing, the assembler's start
    hashed           \* symboltable.c: the shift_hash calls made so far, key and value returned

symvars == <<heap, alive, table, saved_table, curr_offset>>

cgvars == <<bodies, body_heap, code, code_size, ip, stack_depth, max_stack_depth,
            function_name, cg_idprop, label>>

psvars == <<return_type, fd_prev, fd, decl, nfuncs, nvardefs, nstmts, ctl>>

iovars == <<src, sc, files, hashed>>

vars == <<pc, symvars, st_last, closed_names, cgvars, psvars, iovars>>

(* --------------------------- identifiers ------------------------------- *)

\* An identifier is the sequence of its character codes: "a", "n", "f".
\* "a" (97) and "n" (110) hash to the same bucket of a 13-bucket table.
Ids == {<<97>>, <<110>>, <<102>>}

NULL == 0

(* ------------------------- value types (valtypes.h) -------------------- *)

TYPE_BOOLEAN == [base |-> "boolean", array |-> FALSE, callable |-> FALSE]

TYPE_INTEGER == [base |-> "integer", array |-> FALSE, callable |-> FALSE]

TYPE_CALLABLE == [base |-> "none", array |-> FALSE, callable |-> TRUE]

IS_CALLABLE_TYPE(type) == type.callable

IS_VARIABLE(type) == ~type.callable

IS_ARRAY_TYPE(type) == type.array

IS_BOOLEAN_TYPE(type) == type.base = "boolean"

IS_INTEGER_TYPE(type) == type.base = "integer"

SET_AS_ARRAY(type) == [type EXCEPT !.array = TRUE]

SET_AS_CALLABLE(type) == [type EXCEPT !.callable = TRUE]

\* alanc.c: idprop() builds an IDprop record
idprop(type, offset, nparams, params) ==
    [type |-> type, offset |-> offset, nparams |-> nparams, params |-> params]

\* the value of an IDprop pointer that was never assigned
NoProp == idprop([base |-> "none", array |-> FALSE, callable |-> FALSE], 0, 0, <<>>)

(* ------------------ unsigned 32-bit arithmetic (two 16-bit limbs) ------ *)

W16 == 2 ^ 16

U32(n) == [h |-> (n \div W16) % W16, l |-> n % W16]

U32Add(a, b) ==
    LET lo == a.l + b.l
    IN  [h |-> (a.h + b.h + lo \div W16) % W16, l |-> lo % W16]

\* a * m modulo 2^32, for a small multiplier m (a character code or the base 40)
U32MulSmall(a, m) ==
    LET lo == a.l * m
    IN  [h |-> (a.h * m + lo \div W16) % W16, l |-> lo % W16]

U32Mod(a, size) == ((a.h % size) * (W16 % size) + a.l) % size

(* --------------------- symboltable.c: the hash function ---------------- *)

RECURSIVE power_loop(_, _, _)
power_loop(newnum, num, n) ==
    IF n = 0 THEN newnum ELSE power_loop(U32MulSmall(newnum, num), num, n - 1)

\* power(num, exp): newnum = num, then exp times newnum *= num
power(num, exp) == power_loop(U32(num), num, exp)

RECURSIVE hash_inner(_, _, _, _)
\* hash after the first k rounds of
\* for (j = len; j > 0; j--) hash += c * power(cnst + 1, j + 1)
hash_inner(hash, c, len, k) ==
    IF k = 0 THEN hash
    ELSE U32Add(hash_inner(hash, c, len, k - 1),
                U32MulSmall(power(39 + 1, (len - k + 1) + 1), c))

RECURSIVE hash_outer(_, _)
\* hash after the first i characters of key
hash_outer(key, i) ==
    IF i = 0 THEN U32(0)
    ELSE hash_inner(hash_outer(key, i - 1), key[i], Len(key), Len(key))

shift_hash(key, size) == U32Mod(hash_outer(key, Len(key)), size)

(* ------------------------- hashtable.c --------------------------------- *)

\* A HashTab: table[k] is the chain of bucket k in link order.  A chain head is
\* malloc'd without its next_ptr being set (ht_insert, empty-bucket branch), so
\* its next_ptr holds whatever the allocator left there: wild is the set of
\* buckets whose single entry carries a non-NULL garbage next_ptr.
INITIAL_DELTA_INDEX == 4

delta == <<0, 0, 1, 1, 3, 1, 3, 1, 5, 3, 3, 9, 3, 1, 3, 19, 15,
           1, 5, 1, 3, 9, 3, 15, 3, 39, 5, 39, 57, 3, 35, 1>>

MAX_IDX == Len(delta)

ht_init ==
    [size |-> 13, table |-> [k \in 0 .. 12 |-> <<>>], wild |-> {},
     idx |-> INITIAL_DELTA_INDEX, num_entries |-> 1]

RECURSIVE ht_power_loop(_, _, _)
ht_power_loop(new_num, num, n) ==
    IF n <= 0 THEN new_num ELSE ht_power_loop(new_num * num, num, n - 1)

\* hashtable.c: power(num, exponent): new_num = num, then exponent-1 times *= num
ht_power(num, exponent) == ht_power_loop(num, num, exponent - 1)

RECURSIVE getsize_loop(_, _)
getsize_loop(curr_prime, i) ==
    IF i >= MAX_IDX THEN 0
    ELSE IF curr_prime < ht_power(2, i)
         THEN ht_power(2, i + 1) - delta[(i + 1) + 1]
         ELSE getsize_loop(curr_prime, i + 1)

\* the next prime size; the caller's ht->idx is incremented on the looping path
getsize(ht) ==
    IF ht.size < 13 THEN [size |-> 13, idx |-> ht.idx]
    ELSE [size |-> getsize_loop(ht.size, INITIAL_DELTA_INDEX), idx |-> ht.idx + 1]

\* ht_search: walk the chain of the key's bucket.  *value is written on a hit
\* only.  Walking past a head whose next_ptr is garbage dereferences a wild
\* pointer: the call does not return (crash).
ht_search_chain(chain, key, value, wildhead) ==
    IF \E i \in 1 .. Len(chain) : chain[i].key = key
    THEN [found |-> TRUE,
          value |-> chain[CHOOSE i \in 1 .. Len(chain) :
                            /\ chain[i].key = key
                            /\ \A j \in 1 .. i - 1 : chain[j].key # key].value,
          crash |-> FALSE]
    ELSE [found |-> FALSE, value |-> value, crash |-> wildhead]

ht_search_bucket(ht, k, key, value) ==
    ht_search_chain(ht.table[k], key, value, k \in ht.wild)

ht_search(ht, key, value) == ht_search_bucket(ht, shift_hash(key, ht.size), key, value)

\* the entries of a table in the order rehash visits them
RECURSIVE ht_entries(_, _)
ht_entries(ht, i) ==
    IF i >= ht.size THEN <<>> ELSE ht.table[i] \o ht_entries(ht, i + 1)

RECURSIVE ht_insert(_, _, _, _), ht_insert_rehashed(_, _, _, _), rehash(_, _),
          rehash_sized(_, _, _), rehash_loop(_, _, _, _), rehash_step(_, _, _, _)

\* the linking part of ht_insert: h is the table, s what ht_search said, k the
\* bucket, e the new entry.  An empty bucket gets a head whose next_ptr is never
\* assigned; otherwise the entry is linked after the last one with next_ptr NULL.
ht_insert_link(h, s, k, e, u) ==
    IF s.crash
    THEN [ht |-> h, rc |-> "none", crash |-> TRUE]
    ELSE IF s.found
    THEN [ht |-> h, rc |-> "HASH_TABLE_KEY_VALUE_PAIR_EXISTS", crash |-> FALSE]
    ELSE IF h.table[k] = <<>>
    THEN [ht |-> [h EXCEPT !.table[k] = <<e>>,
                           !.num_entries = @ + 1,
                           !.wild = IF u THEN @ \cup {k} ELSE @],
          rc |-> "EXIT_SUCCESS", crash |-> FALSE]
    ELSE [ht |-> [h EXCEPT !.table[k] = Append(@, e),
                           !.num_entries = @ + 1],
          rc |-> "EXIT_SUCCESS", crash |-> FALSE]

ht_insert_rehashed(r, key, value, u) ==
    IF r.crash
    THEN [ht |-> r.ht, rc |-> "none", crash |-> TRUE]
    ELSE ht_insert_link(r.ht, ht_search(r.ht, key, value), shift_hash(key, r.ht.size),
                        [key |-> key, value |-> value], u)

\* ht_insert(ht, key, value); u tells whether the next_ptr of a freshly
\* malloc'd chain head is non-NULL garbage.  currload >= loadf is
\* num_entries / size >= 0.75.
ht_insert(ht, key, value, u) ==
    ht_insert_rehashed(IF 4 * ht.num_entries >= 3 * ht.size
                       THEN rehash(ht, u)
                       ELSE [ht |-> ht, crash |-> FALSE],
                       key, value, u)

rehash_step(r, es, i, u) ==
    IF r.crash THEN [ht |-> r.ht, crash |-> TRUE]
    ELSE rehash_loop(r.ht, es, i + 1, u)

rehash_loop(newht, es, i, u) ==
    IF i > Len(es) THEN [ht |-> newht, crash |-> FALSE]
    ELSE rehash_step(ht_insert(newht, es[i].key, es[i].value, u), es, i, u)

\* what rehash copies back: only table and size (num_entries is not)
rehash_copy(ht, g, r) ==
    IF r.crash
    THEN [ht |-> ht, crash |-> TRUE]
    ELSE [ht |-> [ht EXCEPT !.table = r.ht.table, !.size = r.ht.size,
                            !.wild = r.ht.wild, !.idx = g.idx],
          crash |-> FALSE]

rehash_sized(ht, g, u) ==
    rehash_copy(ht, g,
                rehash_loop([size |-> g.size, table |-> [k \in 0 .. g.size - 1 |-> <<>>],
                             wild |-> {}, idx |-> g.idx, num_entries |-> ht.num_entries],
                            ht_entries(ht, 0), 1, u))

\* rehash: a new table of the next prime size, every entry inserted again;
\* following the garbage next_ptr of a chain head does not return
rehash(ht, u) ==
    IF ht.wild # {} THEN [ht |-> ht, crash |-> TRUE]
    ELSE rehash_sized(ht, getsize(ht), u)

\* the binding of a key, wherever it sits in the table (no hashing)
Bindings(ht) ==
    {e \in UNION {{ht.table[k][i] : i \in 1 .. Len(ht.table[k])} : k \in 0 .. ht.size - 1} : TRUE}

BoundIn(ht, id) == \E e \in Bindings(ht) : e.key = id

BindingOf(ht, id) == (CHOOSE e \in Bindings(ht) : e.key = id).value

(* ------------------------- symboltable.c ------------------------------- *)

Handles == {1, 2}

\* the content given to a handle that is not allocated
NoTab == [ht_init EXCEPT !.num_entries = 0]

\* the symbol table's variables as one value, with a crash flag: an operation
\* that dereferences NULL, a freed table or a wild next_ptr does not return
ST ==
    [heap |-> heap, alive |-> alive, table |-> table, saved_table |-> saved_table,
     curr_offset |-> curr_offset, crash |-> FALSE]

Crashed(st) == [st EXCEPT !.crash = TRUE]

Usable(st, h) == h # NULL /\ h \in st.alive

\* malloc: the lowest handle that is free
NewHandle(st) == CHOOSE h \in Handles \ st.alive : \A h2 \in Handles \ st.alive : h <= h2

NotFound(prop, crash) == [found |-> FALSE, prop |-> prop, crash |-> crash]

find_name_saved_nocheck(prop, s2) ==
    IF s2.crash THEN NotFound(prop, TRUE)
    ELSE [found |-> s2.found, prop |-> s2.value, crash |-> FALSE]

\* the saved table's answer s2: a hit counts only for a callable, but *prop
\* has been written by the hit either way
find_name_saved(prop, s2) ==
    IF s2.crash THEN NotFound(prop, TRUE)
    ELSE IF s2.found /\ ~IS_CALLABLE_TYPE(s2.value.type)
    THEN [found |-> FALSE, prop |-> s2.value, crash |-> FALSE]
    ELSE [found |-> s2.found, prop |-> s2.value, crash |-> FALSE]

\* the active table's answer s1: on a miss the saved table is asked, if there is one
find_name_active(st, id, prop, s1) ==
    IF s1.crash THEN NotFound(prop, TRUE)
    ELSE IF ~s1.found /\ st.saved_table # NULL
    THEN IF ~Usable(st, st.saved_table)
         THEN NotFound(prop, TRUE)
         ELSE find_name_saved(prop, ht_search(st.heap[st.saved_table], id, s1.value))
    ELSE [found |-> s1.found, prop |-> s1.value, crash |-> FALSE]

\* find_name(id, &prop)
find_name(st, id, prop) ==
    IF ~Usable(st, st.table) THEN NotFound(prop, TRUE)
    ELSE find_name_active(st, id, prop, ht_search(st.heap[st.table], id, prop))

insert_name_done_outer(st, prop, r) ==
    IF r.crash THEN [st |-> Crashed(st), ret |-> FALSE]
    ELSE [st  |-> [st EXCEPT !.heap[IF st.saved_table # NULL THEN st.saved_table
                                    ELSE st.table] = r.ht,
                             !.curr_offset = IF IS_VARIABLE(prop.type) THEN @ + 1 ELSE @],
          ret |-> TRUE]

\* after ht_insert answered r: curr_offset counts the variables
insert_name_done(st, prop, r) ==
    IF r.crash THEN [st |-> Crashed(st), ret |-> FALSE]
    ELSE [st  |-> [st EXCEPT !.heap[st.table] = r.ht,
                             !.curr_offset = IF IS_VARIABLE(prop.type) THEN @ + 1 ELSE @],
          ret |-> TRUE]

\* after find_name answered f: the value inserted is prop as find_name left it,
\* because find_name was handed the address of the parameter prop itself
insert_name_found(st, id, u, f) ==
    IF f.crash THEN [st |-> Crashed(st), ret |-> FALSE]
    ELSE IF ~f.found
    THEN insert_name_done(st, f.prop, ht_insert(st.heap[st.table], id, f.prop, u))
    ELSE [st |-> st, ret |-> FALSE]

\* insert_name(id, prop)
insert_name(st, id, prop, u) == insert_name_found(st, id, u, find_name(st, id, prop))

\* saved_table = table; table = ht_init(...)
new_scope(st, h) ==
    [st EXCEPT !.saved_table = st.table, !.table = h, !.heap[h] = ht_init,
               !.alive = @ \cup {h}]

open_subroutine_keep_offset(r) ==
    IF r.st.crash \/ ~r.ret THEN r
    ELSE [st |-> new_scope(r.st, NewHandle(r.st)), ret |-> TRUE]

\* after insert_name answered r (b in the source)
open_subroutine_inserted(r) ==
    IF r.st.crash \/ ~r.ret THEN r
    ELSE [st  |-> [new_scope(r.st, NewHandle(r.st)) EXCEPT !.curr_offset = 0],
          ret |-> TRUE]

\* open_subroutine(id, prop)
open_subroutine(st, id, prop, u) == open_subroutine_inserted(insert_name(st, id, prop, u))

close_subroutine_keep_scope(st) == st

\* ht_free(table, ...) walks every chain (through a garbage next_ptr too),
\* then table = saved_table; saved_table itself is left as it is
close_subroutine(st) ==
    IF ~Usable(st, st.table) \/ st.heap[st.table].wild # {}
    THEN Crashed(st)
    ELSE [st EXCEPT !.heap[st.table] = NoTab,
                    !.alive = @ \ {st.table},
                    !.table = st.saved_table]

get_variables_width(st) == st.curr_offset

init_symbol_table ==
    [heap |-> [h \in Handles |-> IF h = 1 THEN ht_init ELSE NoTab],
     alive |-> {1}, table |-> 1, saved_table |-> NULL, curr_offset |-> 1,
     crash |-> FALSE]

(* ------------------------------ codegen.c ------------------------------ *)

\* A string is the sequence of its character codes.
MainName == <<109, 97, 105, 110>>

\* the class name set_class_name is given: the <id> after "source" (here "P")
class_name == <<80>>

REF_READ_BOOLEAN == <<47, 114, 101, 97, 100, 66, 111, 111, 108, 101, 97, 110, 40, 41, 90>>

REF_READ_INTEGER == <<47, 114, 101, 97, 100, 73, 110, 116, 40, 41, 73>>

ref_read_boolean == class_name \o REF_READ_BOOLEAN

ref_read_integer == class_name \o REF_READ_INTEGER

\* instruction_set[opcode + 1] is the row of a Bytecode (the enum counts from 0)
instruction_set ==
    <<
      [instr |-> "aload", pop |-> 0, push |-> 1],
      [instr |-> "areturn", pop |-> 1, push |-> 0],
      [instr |-> "astore", pop |-> 1, push |-> 0],
      [instr |-> "getstatic", pop |-> 0, push |-> 1],
      [instr |-> "goto", pop |-> 0, push |-> 0],
      [instr |-> "iadd", pop |-> 2, push |-> 1],
      [instr |-> "iaload", pop |-> 2, push |-> 1],
      [instr |-> "iand", pop |-> 2, push |-> 1],
      [instr |-> "iastore", pop |-> 3, push |-> 0],
      [instr |-> "idiv", pop |-> 2, push |-> 1],
      [instr |-> "ifeq", pop |-> 1, push |-> 0],
      [instr |-> "if_icmpeq", pop |-> 2, push |-> 0],
      [instr |-> "if_icmpge", pop |-> 2, push |-> 0],
      [instr |-> "if_icmpgt", pop |-> 2, push |-> 0],
      [instr |-> "if_icmple", pop |-> 2, push |-> 0],
      [instr |-> "if_icmplt", pop |-> 2, push |-> 0],
      [instr |-> "if_icmpne", pop |-> 2, push |-> 0],
      [instr |-> "iload", pop |-> 0, push |-> 1],
      [instr |-> "imul", pop |-> 2, push |-> 1],
      [instr |-> "ineg", pop |-> 1, push |-> 1],
      [instr |-> "invokestatic", pop |-> 0, push |-> 1],
      [instr |-> "invokevirtual", pop |-> 0, push |-> 0],
      [instr |-> "ior", pop |-> 2, push |-> 1],
      [instr |-> "istore", pop |-> 1, push |-> 0],
      [instr |-> "isub", pop |-> 2, push |-> 1],
      [instr |-> "irem", pop |-> 2, push |-> 1],
      [instr |-> "ireturn", pop |-> 1, push |-> 0],
      [instr |-> "ixor", pop |-> 2, push |-> 1],
      [instr |-> "ldc", pop |-> 0, push |-> 1],
      [instr |-> "newarray", pop |-> 1, push |-> 1],
      [instr |-> "return", pop |-> 0, push |-> 0],
      [instr |-> "swap", pop |-> 2, push |-> 2]
    >>

JVM_ALOAD == 0

JVM_ASTORE == 2

JVM_GETSTATIC == 3
JVM_GOTO == 4

JVM_IALOAD == 6

JVM_IASTORE == 8
JVM_IFEQ == 10
JVM_IF_ICMPLT == 15

JVM_ILOAD == 17

JVM_INVOKESTATIC == 20

JVM_INVOKEVIRTUAL == 21

JVM_ISTORE == 23
JVM_IRETURN == 26

JVM_LDC == 28

JVM_NEWARRAY == 29

JVM_RETURN == 30
JVM_SWAP == 31

INITIAL_SIZE == 1024

\* a Code item: its type flags and the member of the union that was written
CodeItem(type, c, num, string) == [type |-> type, code |-> c, num |-> num, string |-> string]

\* a Body pointer is a position in body_heap
NoCode == <<>>

\* the code generator's variables as one value; crash: a write through a buffer
\* that has no room; hang: a loop that never ends
CG ==
    [bodies |-> bodies, body_heap |-> body_heap, code |-> code, code_size |-> code_size,
     ip |-> ip, stack_depth |-> stack_depth, max_stack_depth |-> max_stack_depth,
     function_name |-> function_name, idprop |-> cg_idprop, label |-> label,
     crash |-> FALSE, hang |-> FALSE]

\* before main() runs: static storage is zero
cg_static ==
    [bodies |-> NULL, body_heap |-> <<>>, code |-> NoCode, code_size |-> 0,
     ip |-> 0, stack_depth |-> 0, max_stack_depth |-> 0,
     function_name |-> <<>>, idprop |-> NoProp, label |-> 1,
     crash |-> FALSE, hang |-> FALSE]

init_code_generation(cg) == [cg EXCEPT !.bodies = NULL]

init_subroutine_codegen(cg, name, p) ==
    [cg EXCEPT !.max_stack_depth = 0, !.stack_depth = 0, !.ip = 0, !.code = NoCode,
               !.code_size = INITIAL_SIZE, !.function_name = name, !.idprop = p]

\* the Body close_subroutine_codegen populates
new_body(cg, varwidth) ==
    [name |-> cg.function_name, idprop |-> cg.idprop, code |-> cg.code, ip |-> cg.ip,
     max_stack_depth |-> cg.max_stack_depth, variables_width |-> varwidth,
     next |-> NULL, prev |-> NULL]

\* "link into list": n = bodies; while (n->next != NULL) { p = n; p = p->next; }
\* never moves n, so with a head that has a successor the loop does not end
close_subroutine_codegen_link(cg, body) ==
    IF cg.bodies = NULL
    THEN [cg EXCEPT !.bodies = body]
    ELSE IF cg.body_heap[cg.bodies].next # NULL
    THEN [cg EXCEPT !.hang = TRUE]
    ELSE [cg EXCEPT !.body_heap[cg.bodies].prev = NULL,
                    !.body_heap[cg.bodies].next = body]

close_subroutine_codegen(cg, varwidth) ==
    IF cg.crash THEN cg
    ELSE close_subroutine_codegen_link(
             [cg EXCEPT !.body_heap = Append(@, new_body(cg, varwidth))],
             Len(cg.body_heap) + 1)

\* ensure_space: one doubling if the items do not fit
ensure_space(cg, num_instr) ==
    IF cg.ip + num_instr > cg.code_size
    THEN [cg EXCEPT !.code_size = @ * 2]
    ELSE cg

\* code[ip++] = item.  Without room (code_size is 0 before the first
\* init_subroutine_codegen, and doubling 0 gives 0) the write lands outside the
\* allocation: w tells whether that goes unnoticed or stops the process.
emit(cg, item, w) ==
    IF cg.crash THEN cg
    ELSE IF cg.ip >= cg.code_size /\ ~w
    THEN [cg EXCEPT !.crash = TRUE]
    ELSE [cg EXCEPT !.code = Append(@, item), !.ip = @ + 1]

adjust_stack_pop(cg, instr) == [cg EXCEPT !.stack_depth = @ - instr.pop]

adjust_stack_max(cg, instr) ==
    adjust_stack_pop(IF cg.stack_depth > cg.max_stack_depth
                     THEN [cg EXCEPT !.max_stack_depth = cg.stack_depth]
                     ELSE cg, instr)

\* variant: the maximum is taken after the pop part
adjust_stack_max_late(cg, instr) ==
    IF cg.crash THEN cg
    ELSE IF cg.stack_depth + instr.push - instr.pop > cg.max_stack_depth
    THEN [cg EXCEPT !.stack_depth = @ + instr.push - instr.pop,
                    !.max_stack_depth = cg.stack_depth + instr.push - instr.pop]
    ELSE [cg EXCEPT !.stack_depth = @ + instr.push - instr.pop]

adjust_stack(cg, instr) ==
    IF cg.crash THEN cg
    ELSE adjust_stack_max([cg EXCEPT !.stack_depth = @ + instr.push], instr)

gen_1(cg, opcode, w) ==
    adjust_stack(emit(ensure_space(cg, 1),
                      CodeItem({"CODE_INSTRUCTION"}, opcode, 0, <<>>), w),
                 instruction_set[opcode + 1])

gen_2(cg, opcode, operand, w) ==
    adjust_stack(emit(emit(ensure_space(cg, 2),
                           CodeItem({"CODE_INSTRUCTION"}, opcode, 0, <<>>), w),
                      CodeItem({"CODE_OPERAND", "CODE_INTEGER"}, 0, operand, <<>>), w),
                 instruction_set[opcode + 1])

RECURSIVE fpath_params(_, _)
\* "[" for an array parameter, then "I", for each parameter
fpath_params(params, i) ==
    IF i > Len(params) THEN <<>>
    ELSE (IF IS_ARRAY_TYPE(params[i]) THEN <<91>> ELSE <<>>) \o <<73>>
         \o fpath_params(params, i + 1)

\* class_name "." fname "(" parameters ")" and the return type
fpath(fname, p) ==
    class_name \o <<46>> \o fname \o <<40>> \o fpath_params(p.params, 1) \o <<41>>
    \o (IF IS_ARRAY_TYPE(p.type) THEN <<91>> ELSE <<>>)
    \o (IF p.type = TYPE_CALLABLE THEN <<86>> ELSE <<73>>)

gen_call(cg, fname, p, w) ==
    adjust_stack(emit(emit(ensure_space(cg, 2),
                           CodeItem({"CODE_INSTRUCTION"}, JVM_INVOKESTATIC, 0, <<>>), w),
                      CodeItem({"CODE_OPERAND", "CODE_REFERENCE", "CODE_ALLOCATED"},
                               0, 0, fpath(fname, p)), w),
                 instruction_set[JVM_INVOKESTATIC + 1])

\* gen_read: a type that is neither boolean nor integer fails assert(FALSE)
gen_read_ref(cg, type, w) ==
    IF type = TYPE_BOOLEAN
    THEN emit(cg, CodeItem({"CODE_OPERAND", "CODE_REFERENCE"}, 0, 0, ref_read_boolean), w)
    ELSE IF type = TYPE_INTEGER
    THEN emit(cg, CodeItem({"CODE_OPERAND", "CODE_REFERENCE"}, 0, 0, ref_read_integer), w)
    ELSE [cg EXCEPT !.crash = TRUE]

gen_read(cg, type, w) ==
    adjust_stack(gen_read_ref(emit(ensure_space(cg, 2),
                                   CodeItem({"CODE_INSTRUCTION"}, JVM_INVOKESTATIC, 0, <<>>),
                                   w),
                              type, w),
                 instruction_set[JVM_INVOKESTATIC + 1])

\* codegen.h: the element-type tags of newarray
T_BOOLEAN == 4

T_INT == 10

\* "java/io/PrintStream/print(Z)V"
ref_print_boolean == <<106, 97, 118, 97, 47, 105, 111, 47, 80, 114, 105, 110, 116, 83, 116, 114, 101, 97, 109, 47, 112, 114, 105, 110, 116, 40, 90, 41, 86>>

\* "java/io/PrintStream/print(I)V"
ref_print_integer == <<106, 97, 118, 97, 47, 105, 111, 47, 80, 114, 105, 110, 116, 83, 116, 114, 101, 97, 109, 47, 112, 114, 105, 110, 116, 40, 73, 41, 86>>

\* "java/lang/System/out Ljava/io/PrintStream;"
ref_print_stream == <<106, 97, 118, 97, 47, 108, 97, 110, 103, 47, 83, 121, 115, 116, 101, 109, 47, 111, 117, 116, 32, 76, 106, 97, 118, 97, 47, 105, 111, 47, 80, 114, 105, 110, 116, 83, 116, 114, 101, 97, 109, 59>>

\* "java/io/PrintStream/print(Ljava/lang/String;)V"
ref_print_string == <<106, 97, 118, 97, 47, 105, 111, 47, 80, 114, 105, 110, 116, 83, 116, 114, 101, 97, 109, 47, 112, 114, 105, 110, 116, 40, 76, 106, 97, 118, 97, 47, 108, 97, 110, 103, 47, 83, 116, 114, 105, 110, 103, 59, 41, 86>>

\* valtypes.h: the type a callable returns
SET_RETURN_TYPE(type) == [type EXCEPT !.callable = FALSE]

gen_newarray(cg, atype, w) ==
    adjust_stack(emit(emit(ensure_space(cg, 2),
                           CodeItem({"CODE_INSTRUCTION"}, JVM_NEWARRAY, 0, <<>>), w),
                      CodeItem({"CODE_OPERAND", "CODE_ARRAY_TYPE"}, 0, atype, <<>>), w),
                 instruction_set[JVM_NEWARRAY + 1])

\* gen_print: the reference of the print method; a type that is neither boolean
\* nor integer fails assert(FALSE)
gen_print_ref(cg, type, w) ==
    IF type = TYPE_BOOLEAN
    THEN emit(cg, CodeItem({"CODE_OPERAND", "CODE_REFERENCE"}, 0, 0, ref_print_boolean), w)
    ELSE IF type = TYPE_INTEGER
    THEN emit(cg, CodeItem({"CODE_OPERAND", "CODE_REFERENCE"}, 0, 0, ref_print_integer), w)
    ELSE [cg EXCEPT !.crash = TRUE]

\* gen_print: getstatic <stream>, swap, invokevirtual
gen_print_items(cg, w) ==
    emit(emit(emit(emit(ensure_space(cg, 5),
                        CodeItem({"CODE_INSTRUCTION"}, JVM_GETSTATIC, 0, <<>>), w),
                   CodeItem({"CODE_OPERAND", "CODE_REFERENCE"}, 0, 0, ref_print_stream), w),
              CodeItem({"CODE_INSTRUCTION"}, JVM_SWAP, 0, <<>>), w),
         CodeItem({"CODE_INSTRUCTION"}, JVM_INVOKEVIRTUAL, 0, <<>>), w)

gen_print(cg, type, w) ==
    adjust_stack(
        adjust_stack(
            adjust_stack(gen_print_ref(gen_print_items(cg, w),
                                       IF IS_CALLABLE_TYPE(type)
                                       THEN SET_RETURN_TYPE(type) ELSE type,
                                       w),
                         instruction_set[JVM_GETSTATIC + 1]),
            instruction_set[JVM_SWAP + 1]),
        instruction_set[JVM_INVOKEVIRTUAL + 1])

\* gen_print_string: getstatic <stream>, ldc <string>, invokevirtual
gen_print_string_items(cg, string, w) ==
    emit(emit(emit(emit(emit(emit(ensure_space(cg, 6),
                                  CodeItem({"CODE_INSTRUCTION"}, JVM_GETSTATIC, 0, <<>>), w),
                             CodeItem({"CODE_OPERAND", "CODE_REFERENCE"}, 0, 0,
                                      ref_print_stream), w),
                        CodeItem({"CODE_INSTRUCTION"}, JVM_LDC, 0, <<>>), w),
                   CodeItem({"CODE_OPERAND", "CODE_STRING", "CODE_ALLOCATED"}, 0, 0, string),
                   w),
              CodeItem({"CODE_INSTRUCTION"}, JVM_INVOKEVIRTUAL, 0, <<>>), w),
         CodeItem({"CODE_OPERAND", "CODE_REFERENCE"}, 0, 0, ref_print_string), w)

gen_print_string(cg, string, w) ==
    adjust_stack(
        adjust_stack(
            adjust_stack(gen_print_string_items(cg, string, w),
                         instruction_set[JVM_GETSTATIC + 1]),
            instruction_set[JVM_LDC + 1]),
        instruction_set[JVM_INVOKEVIRTUAL + 1])

RECURSIVE body_list(_, _)
\* dump_code: for (b = bodies; b; b = b->next)
body_list(bh, b) == IF b = NULL THEN <<>> ELSE <<b>> \o body_list(bh, bh[b].next)

\* get_label: return label++; the value returned is cg.label before the call
get_label(cg) == [cg EXCEPT !.label = @ + 1]

gen_label(cg, l, w) ==
    emit(ensure_space(cg, 1), CodeItem({"CODE_LABEL"}, 0, l, <<>>), w)

gen_2_label(cg, opcode, l, w) ==
    adjust_stack(emit(emit(ensure_space(cg, 2),
                           CodeItem({"CODE_INSTRUCTION"}, opcode, 0, <<>>), w),
                      CodeItem({"CODE_LABEL", "CODE_OPERAND"}, 0, l, <<>>), w),
                 instruction_set[opcode + 1])

\* gen_cmp after its two get_label calls
gen_cmp_emit(cg, opcode, l1, l2, w) ==
    gen_label(gen_2(gen_label(gen_2_label(gen_2(gen_2_label(cg, opcode, l1, w),
                                                JVM_LDC, 0, w),
                                          JVM_GOTO, l2, w),
                              l1, w),
                    JVM_LDC, 1, w),
              l2, w)

gen_cmp(cg, opcode, w) ==
    gen_cmp_emit(get_label(get_label(cg)), opcode, cg.label, cg.label + 1, w)

\* one fprintf of dump_method
Line(text, instr, num, string) ==
    [text |-> text, instr |-> instr, num |-> num, string |-> string]

\* the opcodes dump_method ends with a linefeed
NoOperand == {1, 5, 6, 7, 8, 9, 18, 19, 22, 24, 25, 26, 27, 30, 31}

\* dump_method: the switch on one code item
dump_item(c) ==
    IF c.type = {"CODE_LABEL"} THEN Line("L%d:\n", "", c.num, <<>>)
    ELSE IF c.type = {"CODE_LABEL", "CODE_OPERAND"} THEN Line(" L%d\n", "", c.num, <<>>)
    ELSE IF c.type = {"CODE_INSTRUCTION"}
    THEN Line(IF c.code \in NoOperand THEN "\t%s\n" ELSE "\t%s",
              instruction_set[c.code + 1].instr, 0, <<>>)
    ELSE IF "CODE_INTEGER" \in c.type THEN Line(" %d\n", "", c.num, <<>>)
    ELSE IF "CODE_REFERENCE" \in c.type THEN Line(" %s\n", "", 0, c.string)
    ELSE IF "CODE_STRING" \in c.type THEN Line(" \"%s\"\n", "", 0, c.string)
    ELSE Line(" %s\n", "", c.num, <<>>)

\* the guard against a dangling label reads code[ip - 1]; with ip = 0 that is
\* the item before the array, and g tells whether the bytes there look like a
\* placed label
dump_method_last_is_label(b, g) ==
    IF b.ip = 0 THEN g ELSE b.code[b.ip].type = {"CODE_LABEL"}

dump_method(b, g) ==
    [name |-> b.name,
     lines |-> <<Line(".method public static", "", b.idprop.nparams, b.name),
                 Line(".limit stack %d\n", "", b.max_stack_depth, <<>>),
                 Line(".limit locals %d\n", "", b.variables_width, <<>>)>>
               \o [i \in 1 .. b.ip |-> dump_item(b.code[i])]
               \o (IF dump_method_last_is_label(b, g)
                   THEN <<Line("\tnop\n", "", 0, <<>>)>> ELSE <<>>)
               \o <<Line(".end method\n\n", "", 0, <<>>)>>,
     read |-> (0 .. b.ip - 1) \cup {b.ip - 1}]

dump_code_methods(cg, bl, g) == [i \in 1 .. Len(bl) |-> dump_method(cg.body_heap[bl[i]], g)]

\* dump_code: the methods in the order of the list; the preamble is the same
\* for every program
dump_code(cg, g) == dump_code_methods(cg, body_list(cg.body_heap, cg.bodies), g)

(* ------------------------------- alanc.c ------------------------------- *)

\* variable(id, type, pos): a declaration that was read
Decl(id, type) == [id |-> id, type |-> type]

\* what a handler leaves behind: the symbol table, the code generator, and
\* whether a fatal error was reported (error.h: leprintf ends the process)
Handled(st, cg, fatal) == [st |-> st, cg |-> cg, fatal |-> fatal]

\* how a handler ended
Status(r) ==
    IF r.st.crash \/ r.cg.crash THEN "crashed"
    ELSE IF r.cg.hang THEN "hung"
    ELSE IF r.fatal THEN "aborted"
    ELSE "ok"

\* the list parse_funcdef links: the head, and after it only the parameter read
\* last, because the loop assigns next->next without ever moving next
param_list(params) ==
    IF Len(params) <= 1 THEN params ELSE <<params[1], params[Len(params)]>>

\* the stack slot of `prev' after the parameters were read: assigned only if
\* there was a parameter, otherwise what the slot held before
prev_after(prev, params) ==
    IF Len(params) = 0 THEN prev ELSE [wild |-> FALSE, list |-> param_list(params)]

RECURSIVE funcdef_insert(_, _, _, _), funcdef_insert_step(_, _, _, _)

funcdef_insert_step(r, list, i, u) ==
    IF r.st.crash \/ ~r.ret THEN [st |-> r.st, ok |-> FALSE]
    ELSE funcdef_insert(r.st, list, i + 1, u)

\* while (next != NULL) { if (!insert_name(...)) leprintf(...); next = next->next; }
funcdef_insert(st, list, i, u) ==
    IF i > Len(list) THEN [st |-> st, ok |-> TRUE]
    ELSE funcdef_insert_step(
             insert_name(st, list[i].id,
                         idprop(list[i].type, get_variables_width(st), 0, <<>>), u),
             list, i, u)

parse_funcdef_inserted(ins, cg) == Handled(ins.st, cg, ~ins.ok)

\* after open_subroutine answered r (its value is not looked at): next = prev
\* starts the insertion of the parameters; a garbage prev is dereferenced
parse_funcdef_opened(r, cg, prev, fname, p2, u) ==
    IF r.st.crash \/ prev.wild
    THEN Handled(Crashed(r.st), cg, FALSE)
    ELSE parse_funcdef_inserted(funcdef_insert(r.st, prev.list, 1, u),
                                init_subroutine_codegen(cg, fname, p2))

\* the second idprop(...) reads get_variables_width() after open_subroutine
parse_funcdef_open(r, cg, prev, fname, rt, n, v, u) ==
    parse_funcdef_opened(r, cg, prev, fname,
                         idprop(rt, get_variables_width(r.st), n, v), u)

\* the "to" branch; v[i] = next->type; next = next->next runs numparams times
\* over the linked list and reads through NULL when the list is shorter
parse_funcdef_to(st, cg, prev, fname, params, rt, u) ==
    IF Len(params) > Len(param_list(params))
    THEN Handled(Crashed(st), cg, FALSE)
    ELSE parse_funcdef_open(
             open_subroutine(st, fname,
                             idprop(rt, get_variables_width(st), Len(params),
                                    [i \in 1 .. Len(params) |-> param_list(params)[i].type]),
                             u),
             cg, prev, fname, rt, Len(params),
             [i \in 1 .. Len(params) |-> param_list(params)[i].type], u)

\* parse_funcdef up to parse_body
parse_funcdef(st, cg, prev, fname, params, to, rt, u) ==
    IF to
    THEN parse_funcdef_to(st, cg, prev_after(prev, params), fname, params,
                          SET_AS_CALLABLE(rt), u)
    ELSE Handled(st, cg, FALSE)

\* parse_funcdef after parse_body
parse_funcdef_close_codegen(st, cg) ==
    IF st.crash THEN Handled(st, cg, FALSE)
    ELSE Handled(st, close_subroutine_codegen(cg, get_variables_width(st)), FALSE)

parse_funcdef_end(st, cg) == parse_funcdef_close_codegen(close_subroutine(st), cg)

RECURSIVE parse_vardef_loop(_, _, _, _, _), parse_vardef_step(_, _, _, _, _)

parse_vardef_step(r, type, ids, i, u) ==
    IF r.st.crash \/ ~r.ret THEN [st |-> r.st, ok |-> FALSE, read |-> i]
    ELSE parse_vardef_loop(r.st, type, ids, i + 1, u)

\* parse_vardef: every id of the list is inserted with the type of the vardef
parse_vardef_loop(st, type, ids, i, u) ==
    IF i > Len(ids) THEN [st |-> st, ok |-> TRUE, read |-> Len(ids)]
    ELSE parse_vardef_step(
             insert_name(st, ids[i], idprop(type, get_variables_width(st), 0, <<>>), u),
             type, ids, i, u)

parse_vardef(st, type, ids, u) == parse_vardef_loop(st, type, ids, 1, u)

\* a <factor> that was read: a number, true or false, an identifier alone,
\* with a subscript or with arguments, or "not" <factor>; arg holds the factors
\* inside it
Num(value) == [kind |-> "num", value |-> value, id |-> <<>>, arg |-> <<>>]

Var(id) == [kind |-> "id", value |-> 0, id |-> id, arg |-> <<>>]

Bool(value) == [kind |-> "bool", value |-> value, id |-> <<>>, arg |-> <<>>]

Index(id, sub) == [kind |-> "index", value |-> 0, id |-> id, arg |-> <<sub>>]

Apply(id, args) == [kind |-> "call", value |-> 0, id |-> id, arg |-> args]

Not(f) == [kind |-> "not", value |-> 0, id |-> <<>>, arg |-> <<f>>]

\* parse_factor on an <id> that nothing follows; f is what find_name answered
parse_factor_id(cg, f, w) ==
    IF f.crash THEN [cg EXCEPT !.crash = TRUE]
    ELSE IF ~f.found THEN cg
    ELSE IF IS_ARRAY_TYPE(f.prop.type) THEN gen_2(cg, JVM_ALOAD, f.prop.offset, w)
    ELSE IF ~IS_CALLABLE_TYPE(f.prop.type) THEN gen_2(cg, JVM_ILOAD, f.prop.offset, w)
    ELSE cg

\* parse_factor: gen_call(finame, p) after the arguments; without a binding p
\* was never assigned, and w tells whether what it holds can be read
parse_factor_call(cg, id, f, w) ==
    IF cg.crash THEN cg
    ELSE IF f.crash \/ (~f.found /\ ~w) THEN [cg EXCEPT !.crash = TRUE]
    ELSE gen_call(cg, id, f.prop, w)

RECURSIVE parse_factor(_, _, _, _)
RECURSIVE parse_factor_args(_, _, _, _, _)
\* the expressions between the parentheses, in order
parse_factor_args(st, cg, args, i, w) ==
    IF i > Len(args) THEN cg
    ELSE parse_factor_args(st, parse_factor(st, cg, args[i], w), args, i + 1, w)

parse_factor(st, cg, rhs, w) ==
    IF rhs.kind \in {"num", "bool"}
    THEN gen_2(cg, JVM_LDC, rhs.value, w)
    ELSE IF rhs.kind = "id"
    THEN parse_factor_id(cg, find_name(st, rhs.id, NoProp), w)
    ELSE IF rhs.kind = "index"
    THEN gen_1(parse_factor(st, parse_factor_id(cg, find_name(st, rhs.id, NoProp), w),
                            rhs.arg[1], w),
               JVM_IALOAD, w)
    ELSE IF rhs.kind = "call"
    THEN parse_factor_call(
             parse_factor_args(st, parse_factor_id(cg, find_name(st, rhs.id, NoProp), w),
                               rhs.arg, 1, w),
             rhs.id, find_name(st, rhs.id, NoProp), w)
    ELSE parse_factor(st, cg, rhs.arg[1], w)

\* parse_factor: *type after an <id>; a callable or an unbound name leaves it
\* as it was
parse_factor_id_type(f, type) ==
    IF f.found /\ (IS_ARRAY_TYPE(f.prop.type) \/ ~IS_CALLABLE_TYPE(f.prop.type))
    THEN f.prop.type
    ELSE type

RECURSIVE parse_factor_type(_, _, _)
RECURSIVE parse_factor_args_type(_, _, _, _)
parse_factor_args_type(st, args, i, type) ==
    IF i > Len(args) THEN type
    ELSE parse_factor_args_type(st, args, i + 1, parse_factor_type(st, args[i], type))

\* what parse_factor leaves in *type, which held `type' before
parse_factor_type(st, rhs, type) ==
    IF rhs.kind = "num" THEN TYPE_INTEGER
    ELSE IF rhs.kind = "bool" THEN TYPE_BOOLEAN
    ELSE IF rhs.kind = "id"
    THEN parse_factor_id_type(find_name(st, rhs.id, NoProp), type)
    ELSE IF rhs.kind \in {"index", "call"}
    THEN parse_factor_args_type(st, rhs.arg, 1,
                                parse_factor_id_type(find_name(st, rhs.id, NoProp), type))
    ELSE parse_factor_type(st, rhs.arg[1], type)

\* parse_assign after parse_expr: the store to the target, if it is found
parse_assign_store(cg, f, w) ==
    IF cg.crash THEN cg
    ELSE IF f.crash THEN [cg EXCEPT !.crash = TRUE]
    ELSE IF ~f.found THEN cg
    ELSE IF IS_ARRAY_TYPE(f.prop.type) THEN gen_1(cg, JVM_IASTORE, w)
    ELSE gen_2(cg, JVM_ISTORE, f.prop.offset, w)

\* <id> ":=" <expr>
parse_assign(st, cg, id, rhs, w) ==
    parse_assign_store(parse_factor(st, cg, rhs, w), find_name(st, id, NoProp), w)

\* <expr> over number literals: the left operand, and with a relational
\* operator the right operand and gen_cmp
NoRelop == -1

Expr(lhs, relop, rhs) == [lhs |-> lhs, relop |-> relop, rhs |-> rhs]

parse_expr(st, cg, e, w) ==
    IF e.relop = NoRelop
    THEN parse_factor(st, cg, e.lhs, w)
    ELSE gen_cmp(parse_factor(st, parse_factor(st, cg, e.lhs, w), e.rhs, w), e.relop, w)

\* what parse_expr leaves in *type
parse_expr_type(st, e, type) ==
    IF e.relop = NoRelop
    THEN parse_factor_type(st, e.lhs, type)
    ELSE parse_factor_type(st, e.rhs, parse_factor_type(st, e.lhs, type))

\* an activation of parse_if or parse_while: its labels and where it stands
Frame(kind, start, end, next, phase, elsifs) ==
    [kind |-> kind, start |-> start, end |-> end, next |-> next, phase |-> phase,
     elsifs |-> elsifs]

\* parse_if up to the statements after "then"
parse_if(st, cg, e, w) ==
    gen_2_label(parse_expr(st, get_label(get_label(get_label(cg))), e, w),
                JVM_IFEQ, cg.label + 2, w)

\* parse_if after the statements of a branch: the jump to the end and the
\* label the failed test jumps to
parse_if_branch_end(cg, f, w) ==
    gen_label(gen_2_label(cg, JVM_GOTO, f.end, w),
              IF f.phase = "then" THEN f.next ELSE f.start, w)

\* parse_if: "elsif" <expr> "then"
parse_if_elsif(st, cg, e, w) ==
    gen_2_label(parse_expr(st, get_label(cg), e, w), JVM_IFEQ, cg.label, w)

\* parse_if: "end"
parse_if_end(cg, f, w) == gen_label(cg, f.end, w)

\* parse_while up to the statements after "do"
parse_while(st, cg, e, w) ==
    gen_2_label(parse_expr(st, gen_label(get_label(get_label(cg)), cg.label, w), e, w),
                JVM_IFEQ, cg.label + 1, w)

\* parse_while after the statements
parse_while_end(cg, f, w) ==
    gen_label(gen_2_label(cg, JVM_GOTO, f.start, w), f.end, w)

\* parse_leave with an expression
parse_leave(st, cg, e, w) == gen_1(parse_expr(st, cg, e, w), JVM_IRETURN, w)

parse_call_found(cg, cname, f, w) ==
    IF f.crash THEN [cg EXCEPT !.crash = TRUE]
    ELSE IF ~f.found THEN cg
    ELSE gen_call(cg, cname, f.prop, w)

\* "call" <id> "(" ")"
parse_call(st, cg, cname, w) == parse_call_found(cg, cname, find_name(st, cname, NoProp), w)

parse_input_found(cg, f, w) ==
    IF f.crash THEN [cg EXCEPT !.crash = TRUE]
    ELSE IF ~f.found THEN cg
    ELSE gen_2(gen_read(cg, f.prop.type, w), JVM_ISTORE, f.prop.offset, w)

\* "get" <id>
parse_input(st, cg, iname, w) == parse_input_found(cg, find_name(st, iname, NoProp), w)

\* parse_assign: <id> "[" <simple> "]" ":=" <expr>
parse_assign_index_load(cg, f, w) ==
    IF f.crash THEN [cg EXCEPT !.crash = TRUE]
    ELSE IF ~f.found THEN cg
    ELSE gen_2(cg, JVM_ALOAD, f.prop.offset, w)

parse_assign_index(st, cg, id, sub, rhs, w) ==
    parse_assign_store(
        parse_expr(st,
                   parse_factor(st, parse_assign_index_load(cg, find_name(st, id, NoProp), w),
                                sub, w),
                   rhs, w),
        find_name(st, id, NoProp), w)

\* parse_assign: the allocation after "array" <simple>, if the target is found
parse_assign_newarray(cg, f, w) ==
    IF cg.crash THEN cg
    ELSE IF f.crash THEN [cg EXCEPT !.crash = TRUE]
    ELSE IF ~f.found THEN cg
    ELSE gen_2(IF IS_BOOLEAN_TYPE(f.prop.type) THEN gen_newarray(cg, T_INT, w)
               ELSE IF IS_INTEGER_TYPE(f.prop.type) THEN gen_newarray(cg, T_INT, w)
               ELSE cg,
               JVM_ASTORE, f.prop.offset, w)

\* parse_assign: <id> ":=" "array" <simple>
parse_assign_array(st, cg, id, size, w) ==
    parse_assign_newarray(parse_factor(st, cg, size, w), find_name(st, id, NoProp), w)

\* parse_call: "call" <id> "(" <expr> {"," <expr>} ")"
parse_call_args(st, cg, cname, args, w) ==
    parse_call_found(parse_factor_args(st, cg, args, 1, w), cname,
                     find_name(st, cname, NoProp), w)

\* an item of "put": a string, or an expression
OutString(string) == [string |-> string, expr |-> <<>>]

OutExpr(e) == [string |-> <<>>, expr |-> <<e>>]

RECURSIVE parse_output_items(_, _, _, _, _, _)
\* parse_output: the items in order; type is the local the expressions write
parse_output_items(st, cg, items, i, type, w) ==
    IF i > Len(items) THEN cg
    ELSE IF items[i].expr = <<>>
    THEN parse_output_items(st, gen_print_string(cg, items[i].string, w), items, i + 1,
                            type, w)
    ELSE parse_output_items(st,
                            gen_print(parse_expr(st, cg, items[i].expr[1], w),
                                      parse_expr_type(st, items[i].expr[1], type), w),
                            items, i + 1,
                            parse_expr_type(st, items[i].expr[1], type), w)

\* "put" (<string> | <expr>) {"." (<string> | <expr>)}; type is what the local
\* held on entry
parse_output(st, cg, items, type, w) == parse_output_items(st, cg, items, 1, type, w)

(* ---------------- the symbol table driven through its interface -------- *)

SubOpen == saved_table # NULL /\ table # saved_table

SetST(st) ==
    /\ heap' = st.heap
    /\ alive' = st.alive
    /\ table' = st.table
    /\ saved_table' = st.saved_table
    /\ curr_offset' = st.curr_offset

\* a call that crashed leaves the process dead and the memory as it was
Outcome(st) == IF st.crash THEN pc' = "crashed" /\ SetST(ST) ELSE pc' = "run" /\ SetST(st)

\* a record of a call: its name, the identifier and property passed, the value
\* returned and the property written through the out-parameter
Call(op, id, arg, ret, out) == [op |-> op, id |-> id, arg |-> arg, ret |-> ret, out |-> out]

\* the properties callers pass for a variable and for a subroutine
VarProps == {idprop(t, curr_offset, 0, <<>>) : t \in {TYPE_INTEGER, TYPE_BOOLEAN}}

SubProps == {idprop(SET_AS_CALLABLE(TYPE_INTEGER), curr_offset, 0, <<>>)}

SetCG(cg) ==
    /\ bodies' = cg.bodies
    /\ body_heap' = cg.body_heap
    /\ code' = cg.code
    /\ code_size' = cg.code_size
    /\ ip' = cg.ip
    /\ stack_depth' = cg.stack_depth
    /\ max_stack_depth' = cg.max_stack_depth
    /\ function_name' = cg.function_name
    /\ cg_idprop' = cg.idprop
    /\ label' = cg.label

\* main(): init_symbol_table()
SymbolTableInit ==
    /\ heap = init_symbol_table.heap
    /\ alive = init_symbol_table.alive
    /\ table = init_symbol_table.table
    /\ saved_table = init_symbol_table.saved_table
    /\ curr_offset = init_symbol_table.curr_offset
    /\ closed_names = {}

\* main(): init_code_generation() on the zeroed static storage
CodeGenInit ==
    /\ bodies = init_code_generation(cg_static).bodies
    /\ body_heap = cg_static.body_heap
    /\ code = cg_static.code
    /\ code_size = cg_static.code_size
    /\ ip = cg_static.ip
    /\ stack_depth = cg_static.stack_depth
    /\ max_stack_depth = cg_static.max_stack_depth
    /\ function_name = cg_static.function_name
    /\ cg_idprop = cg_static.idprop
    /\ label = cg_static.label

\* a function definition header; MainName stands for the top-level body
Header(name, to, nparams, valid) ==
    [name |-> name, to |-> to, nparams |-> nparams, valid |-> valid]

\* the parser before parse_source; garbage tells what the stack holds where
\* parse_funcdef's `prev' will live
ParserInit(garbage) ==
    /\ return_type = NoProp.type
    /\ fd_prev = [wild |-> garbage, list |-> <<>>]
    /\ fd = Header(<<>>, FALSE, 0, FALSE)
    /\ decl = <<>>
    /\ nfuncs = 0
    /\ nvardefs = 0
    /\ nstmts = 0
    /\ ctl = <<>>

\* ---------------------------------------------------------------------------
\* scanner.c.  Characters are their codes; EOF is what fgetc returns at the end
\* of the file.  A string is the sequence of its character codes.
EOF == -1

INT_MAX == 2147483647

MAX_ID_LENGTH == 32

NUM_RESERVED_WORDS == 25

reserved ==
    <<
      [word |-> <<97, 110, 100>>, type |-> "TOKEN_AND"],
      [word |-> <<97, 114, 114, 97, 121>>, type |-> "TOKEN_ARRAY"],
      [word |-> <<98, 101, 103, 105, 110>>, type |-> "TOKEN_BEGIN"],
      [word |-> <<98, 111, 111, 108, 101, 97, 110>>, type |-> "TOKEN_BOOLEAN"],
      [word |-> <<99, 97, 108, 108>>, type |-> "TOKEN_CALL"],
      [word |-> <<100, 111>>, type |-> "TOKEN_DO"],
      [word |-> <<101, 108, 115, 101>>, type |-> "TOKEN_ELSE"],
      [word |-> <<101, 108, 115, 105, 102>>, type |-> "TOKEN_ELSIF"],
      [word |-> <<101, 110, 100>>, type |-> "TOKEN_END"],
      [word |-> <<102, 97, 108, 115, 101>>, type |-> "TOKEN_FALSE"],
      [word |-> <<102, 117, 110, 99, 116, 105, 111, 110>>, type |-> "TOKEN_FUNCTION"],
      [word |-> <<103, 101, 116>>, type |-> "TOKEN_GET"],
      [word |-> <<105, 102>>, type |-> "TOKEN_IF"],
      [word |-> <<105, 110, 116, 101, 103, 101, 114>>, type |-> "TOKEN_INTEGER"],
      [word |-> <<108, 101, 97, 118, 101>>, type |-> "TOKEN_LEAVE"],
      [word |-> <<110, 111, 116>>, type |-> "TOKEN_NOT"],
      [word |-> <<111, 114>>, type |-> "TOKEN_OR"],
      [word |-> <<112, 117, 116>>, type |-> "TOKEN_PUT"],
      [word |-> <<114, 101, 108, 97, 120>>, type |-> "TOKEN_RELAX"],
      [word |-> <<114, 101, 109>>, type |-> "TOKEN_REMAINDER"],
      [word |-> <<115, 111, 117, 114, 99, 101>>, type |-> "TOKEN_SOURCE"],
      [word |-> <<116, 104, 101, 110>>, type |-> "TOKEN_THEN"],
      [word |-> <<116, 111>>, type |-> "TOKEN_TO"],
      [word |-> <<116, 114, 117, 101>>, type |-> "TOKEN_TRUE"],
      [word |-> <<119, 104, 105, 108, 101>>, type |-> "TOKEN_WHILE"]
    >>

isdigit(c) == c >= 48 /\ c <= 57

isalpha(c) == (c >= 65 /\ c <= 90) \/ (c >= 97 /\ c <= 122)

isprint(c) == c >= 32 /\ c <= 126

\* the Token get_token fills; a field it does not assign keeps its old value
NoToken == [type |-> "", value |-> 0, string |-> <<>>, lexeme |-> <<>>]

\* the scanner's variables together with the file as one value.  err is the
\* message of the fatal error that ended the process ("" while it runs), and
\* position (line, col) is then the position the message was printed with
SC ==
    [file |-> src.file, off |-> src.off, ch |-> sc.ch, column_number |-> sc.column_number,
     last_read |-> sc.last_read, line |-> sc.line, col |-> sc.col, t |-> sc.t,
     token |-> sc.token, err |-> sc.err]

\* before main() runs: static storage is zero
scanner_static ==
    [ch |-> 0, column_number |-> 0, last_read |-> 0, line |-> 0, col |-> 0, t |-> 0,
     token |-> NoToken, err |-> ""]

\* error.h leprintf: prints the message with the position and ends the process
leprintf(s, msg) == [s EXCEPT !.err = msg]

\* fgetc(src_file)
fgetc(s) == IF s.off < Len(s.file) THEN s.file[s.off + 1] ELSE EOF

next_char_position(s) ==
    IF s.ch = EOF THEN s
    ELSE IF s.last_read = 10
    THEN [s EXCEPT !.line = @ + 1, !.column_number = 1]
    ELSE [s EXCEPT !.column_number = @ + 1]

next_char(s) ==
    next_char_position([s EXCEPT !.last_read = s.ch, !.ch = fgetc(s),
                                 !.off = IF s.off < Len(s.file) THEN @ + 1 ELSE @])

init_scanner(s) == next_char([s EXCEPT !.line = 1, !.col = 0, !.column_number = 0])

RECURSIVE process_number_loop(_, _)
\* variant: the bound test is strict
process_number_loop_strict(s, v) ==
    IF isdigit(s.ch)
    THEN IF v < (INT_MAX - (s.ch - 48)) \div 10
         THEN process_number_loop(next_char(s), 10 * v + (s.ch - 48))
         ELSE leprintf(s, "number too large")
    ELSE [s EXCEPT !.token.value = v, !.token.type = "TOKEN_NUMBER"]

process_number_loop(s, v) ==
    IF isdigit(s.ch)
    THEN IF v <= (INT_MAX - (s.ch - 48)) \div 10
         THEN process_number_loop(next_char(s), 10 * v + (s.ch - 48))
         ELSE leprintf(s, "number too large")
    ELSE [s EXCEPT !.token.value = v, !.token.type = "TOKEN_NUMBER"]

process_number(s) == process_number_loop(s, 0)

\* i++; string[i] = '\0' after realloc(string, i): the terminator lands past the
\* characters read, and g is what the bytes before it hold
process_string_end(s, str, g) ==
    IF s.ch = EOF
    THEN leprintf(s, "string not closed")
    ELSE next_char([s EXCEPT !.token.string = str \o g, !.token.type = "TOKEN_STRING"])

RECURSIVE process_string_loop(_, _, _)
process_string_escape(s, str, g) ==
    IF s.ch \in {97, 98, 102, 114, 118, 39, 63}
    THEN leprintf(s, "illegal escape code")
    ELSE process_string_loop(next_char(s), str \o <<92, s.ch>>, g)

process_string_loop(s, str, g) ==
    IF s.ch # 34 /\ s.ch # EOF
    THEN IF ~isprint(s.ch)
         THEN leprintf([s EXCEPT !.col = s.column_number], "non-printable character in string")
         ELSE IF s.ch = 92
         THEN process_string_escape(
                  [next_char(s) EXCEPT !.col = next_char(s).column_number - 1], str, g)
         ELSE process_string_loop(next_char(s), Append(str, s.ch), g)
    ELSE process_string_end(s, str, g)

process_string(s, g) == process_string_loop(s, <<>>, g)

RECURSIVE strcmp(_, _)
\* < 0, 0 or > 0 as a is before, equal to or after b
strcmp(a, b) ==
    IF a = <<>> /\ b = <<>> THEN 0
    ELSE IF a = <<>> THEN -1
    ELSE IF b = <<>> THEN 1
    ELSE IF Head(a) # Head(b) THEN Head(a) - Head(b)
    ELSE strcmp(Tail(a), Tail(b))

RECURSIVE reserved_search(_, _, _)
\* the binary search; -1 when the lexeme is not a reserved word
reserved_search(lexeme, low, high) ==
    IF low > high THEN -1
    ELSE IF strcmp(lexeme, reserved[low + (high - low) \div 2 + 1].word) < 0
    THEN reserved_search(lexeme, low, low + (high - low) \div 2 - 1)
    ELSE IF strcmp(lexeme, reserved[low + (high - low) \div 2 + 1].word) = 0
    THEN low + (high - low) \div 2
    ELSE reserved_search(lexeme, low + (high - low) \div 2 + 1, high)

process_word_found(s, lexeme, index) ==
    IF index = -1
    THEN [s EXCEPT !.token.type = "TOKEN_ID", !.token.lexeme = lexeme]
    ELSE [s EXCEPT !.token.type = reserved[index + 1].type]

RECURSIVE process_word_loop(_, _)
process_word_loop(s, lexeme) ==
    IF isalpha(s.ch) \/ isdigit(s.ch) \/ s.ch = 95
    THEN IF Len(lexeme) < MAX_ID_LENGTH
         THEN process_word_loop(next_char(s), Append(lexeme, s.ch))
         ELSE leprintf(s, "identifier too long")
    ELSE process_word_found(s, lexeme, reserved_search(lexeme, 0, NUM_RESERVED_WORDS - 1))

process_word(s) == process_word_loop([s EXCEPT !.col = s.column_number], <<>>)

RECURSIVE skip_comment(_)
RECURSIVE skip_comment_loop(_, _, _)
skip_comment_inner(r, line, col) ==
    IF r.err # "" THEN r ELSE skip_comment_loop(next_char(r), line, col)

\* variant: an opening brace inside a comment is an ordinary character
skip_comment_loop_flat(s, line, col) ==
    IF s.ch # 125 /\ s.ch # EOF
    THEN skip_comment_loop(next_char(s), line, col)
    ELSE IF s.ch = EOF
    THEN leprintf([s EXCEPT !.line = line, !.col = col], "comment not closed")
    ELSE s

skip_comment_loop(s, line, col) ==
    IF s.ch # 125 /\ s.ch # EOF
    THEN IF s.ch = 123
         THEN skip_comment_inner(skip_comment(s), line, col)
         ELSE skip_comment_loop(next_char(s), line, col)
    ELSE IF s.ch = EOF
    THEN leprintf([s EXCEPT !.line = line, !.col = col], "comment not closed")
    ELSE s

skip_comment(s) == skip_comment_loop(next_char(s), s.line, s.column_number)

RECURSIVE skip_whitespace(_)
skip_whitespace(s) == IF s.ch \in {32, 9, 10} THEN skip_whitespace(next_char(s)) ELSE s

Type(s, type) == [s EXCEPT !.token.type = type]

\* case ':'
get_token_colon(s, t) ==
    IF s.ch = 61
    THEN next_char(Type(s, "TOKEN_GETS"))
    ELSE leprintf(s, "illegal character")

\* variant: '<' is a token whatever follows it
get_token_less_short(s) ==
    IF s.ch = 32 THEN next_char(Type(s, "TOKEN_LESS_THAN"))
    ELSE Type(s, "TOKEN_LESS_THAN")

\* case '<'
get_token_less(s) ==
    IF s.ch = 32 THEN next_char(Type(s, "TOKEN_LESS_THAN"))
    ELSE IF s.ch = 62 THEN next_char(Type(s, "TOKEN_NOT_EQUAL"))
    ELSE IF s.ch = 61 THEN next_char(Type(s, "TOKEN_LESS_EQUAL"))
    ELSE Type(s, "TOKEN_LESS_THAN")

\* case '>'
get_token_greater(s) ==
    IF s.ch = 32 THEN next_char(Type(s, "TOKEN_GREATER_THAN"))
    ELSE IF s.ch = 61 THEN next_char(Type(s, "TOKEN_GREATER_EQUAL"))
    ELSE Type(s, "TOKEN_GREATER_THAN")

\* the single-character tokens of the switch
punctuation ==
    [c \in {40, 41, 91, 93, 43, 45, 47, 42, 59, 44, 46, 61} |->
        CASE c = 40 -> "TOKEN_OPEN_PARENTHESIS"
          [] c = 41 -> "TOKEN_CLOSE_PARENTHESIS"
          [] c = 91 -> "TOKEN_OPEN_BRACKET"
          [] c = 93 -> "TOKEN_CLOSE_BRACKET"
          [] c = 43 -> "TOKEN_PLUS"
          [] c = 45 -> "TOKEN_MINUS"
          [] c = 47 -> "TOKEN_DIVIDE"
          [] c = 42 -> "TOKEN_MULTIPLY"
          [] c = 59 -> "TOKEN_SEMICOLON"
          [] c = 44 -> "TOKEN_COMMA"
          [] c = 46 -> "TOKEN_CONCATENATE"
          [] c = 61 -> "TOKEN_EQUAL"]

RECURSIVE get_token(_, _)
get_token_comment(r, g) ==
    IF r.err # "" THEN r ELSE get_token(next_char(r), g)

get_token_switch(s, g) ==
    IF s.ch = 34 THEN process_string(next_char([s EXCEPT !.col = s.column_number]), g)
    ELSE IF s.ch = 123 THEN get_token_comment(skip_comment(s), g)
    ELSE IF s.ch \in DOMAIN punctuation THEN next_char(Type(s, punctuation[s.ch]))
    ELSE IF s.ch = 58 THEN get_token_colon(next_char([s EXCEPT !.t = s.ch]), s.ch)
    ELSE IF s.ch = 60 THEN get_token_less(next_char(s))
    ELSE IF s.ch = 62 THEN get_token_greater(next_char(s))
    ELSE leprintf(s, "illegal character")

get_token_start(s, g) ==
    IF s.ch # EOF
    THEN IF isalpha(s.ch) \/ s.ch = 95 THEN process_word(s)
         ELSE IF isdigit(s.ch) THEN process_number(s)
         ELSE get_token_switch(s, g)
    ELSE Type(s, "TOKEN_EOF")

get_token_col(s, g) == get_token_start([s EXCEPT !.col = s.column_number], g)

get_token(s, g) == get_token_col(skip_whitespace(s), g)

\* the source file before it is read
File(text) == [file |-> text, off |-> 0]

SetSC(s) ==
    /\ src' = [file |-> s.file, off |-> s.off]
    /\ sc' = [ch |-> s.ch, column_number |-> s.column_number, last_read |-> s.last_read,
              line |-> s.line, col |-> s.col, t |-> s.t, token |-> s.token, err |-> s.err]

\* nothing written, nothing started: the listing and how often it was written,
\* how often the assembler was started, the compile errors reported (leprintf)
\* and the system errors reported (eprintf)
NoOutput == [listing |-> <<>>, written |-> 0, assembled |-> 0, errors |-> 0, failures |-> 0]

\* no call of shift_hash yet; size is the size of the table that will call it
NoHashes(size) == [size |-> size, len |-> 1, n |-> 0, table |-> {}]

\* main() before it opens the source file: no file, static storage zero
IoInit ==
    /\ src = File(<<>>)
    /\ sc = scanner_static
    /\ files = NoOutput
    /\ hashed = NoHashes(ht_init.size)

SymInit ==
    /\ pc = "run"
    /\ IoInit
    /\ CodeGenInit
    /\ ParserInit(FALSE)
    /\ SymbolTableInit
    /\ st_last = Call("init", <<>>, NoProp, FALSE, NoProp)

SymInsertDone(id, prop, r) ==
    /\ Outcome(r.st)
    /\ st_last' = Call("insert", id, prop, r.ret, NoProp)
    /\ closed_names' = {}
    /\ UNCHANGED <<cgvars, psvars, iovars>>

SymInsert ==
    /\ pc = "run"
    /\ \E id \in Ids, prop \in VarProps, u \in BOOLEAN :
         SymInsertDone(id, prop, insert_name(ST, id, prop, u))

SymFindDone(id, r) ==
    /\ Outcome([ST EXCEPT !.crash = r.crash])
    /\ st_last' = Call("find", id, NoProp, r.found, IF r.found THEN r.prop ELSE NoProp)
    /\ closed_names' = {}
    /\ UNCHANGED <<cgvars, psvars, iovars>>

SymFind ==
    /\ pc = "run"
    /\ \E id \in Ids : SymFindDone(id, find_name(ST, id, NoProp))

SymOpenDone(id, r) ==
    /\ Outcome(r.st)
    /\ st_last' = Call("open", id, NoProp, r.ret, NoProp)
    /\ closed_names' = {}
    /\ UNCHANGED <<cgvars, psvars, iovars>>

SymOpen ==
    /\ pc = "run"
    /\ ~SubOpen
    /\ \E id \in Ids, prop \in SubProps, u \in BOOLEAN :
         SymOpenDone(id, open_subroutine(ST, id, prop, u))

SymCloseDone(st) ==
    /\ Outcome(st)
    /\ st_last' = Call("close", <<>>, NoProp, FALSE, NoProp)
    /\ closed_names' = IF st.crash THEN {} ELSE {e.key : e \in Bindings(heap[table])}
    /\ UNCHANGED <<cgvars, psvars, iovars>>

SymClose ==
    /\ pc = "run"
    /\ SubOpen
    /\ SymCloseDone(close_subroutine(ST))

SymNext == SymInsert \/ SymFind \/ SymOpen \/ SymClose

SymSpec == SymInit /\ [][SymNext]_vars

(* --------------- the code generator driven through its interface ------- *)

MaxBodies == 3

MaxItems == 2

\* a call makes the process hang, crash, or leaves it at `then'
CgOutcome(cg, then) ==
    /\ pc' = IF cg.hang THEN "hung" ELSE IF cg.crash THEN "crashed" ELSE then
    /\ SetCG(cg)
    /\ UNCHANGED <<symvars, closed_names, psvars, iovars>>

CgInit ==
    /\ pc = "idle"
    /\ IoInit
    /\ SymbolTableInit
    /\ CodeGenInit
    /\ ParserInit(FALSE)
    /\ st_last = Call("init", <<>>, NoProp, FALSE, NoProp)

CgOpen ==
    /\ pc = "idle"
    /\ Len(body_heap) < MaxBodies
    /\ \E name \in {<<102>>, MainName} :
         /\ CgOutcome(init_subroutine_codegen(CG, name, idprop(TYPE_CALLABLE, 0, 0, <<>>)),
                      "open")
         /\ st_last' = Call("init_subroutine_codegen", name, NoProp, FALSE, NoProp)

CgGen ==
    /\ pc = "open"
    /\ ip < MaxItems
    /\ \/ \E opcode \in {JVM_ISTORE, JVM_LDC} :
            CgOutcome(gen_2(CG, opcode, 0, FALSE), "open")
       \/ \E opcode \in {JVM_RETURN, JVM_SWAP} :
            CgOutcome(gen_1(CG, opcode, FALSE), "open")
    /\ st_last' = Call("gen", <<>>, NoProp, FALSE, NoProp)

CgClose ==
    /\ pc = "open"
    /\ CgOutcome(close_subroutine_codegen(CG, get_variables_width(ST)), "idle")
    /\ st_last' = Call("close_subroutine_codegen", <<>>, NoProp, FALSE, NoProp)

CgNext == CgOpen \/ CgGen \/ CgClose

CgSpec == CgInit /\ [][CgNext]_vars

(* ------------------------- the parser at work -------------------------- *)

\* ---------------------------------------------------------------------------
\* The scanner on its own: a source text is opened and read token by token
\* until end of file or a fatal error.
MaxText == 4

MaxBody == 3

MaxNest == 3

MaxDigits == 3

\* texts over the characters a, newline, space, braces and the operator characters
TextChars == {97, 10, 32, 123, 125, 60, 62, 61, 58}

Texts == UNION {[1 .. k -> TextChars] : k \in 0 .. MaxText}

RECURSIVE Repeat(_, _)
Repeat(c, n) == IF n = 0 THEN <<>> ELSE <<c>> \o Repeat(c, n - 1)

\* comments nested d deep, closed or with the last brace missing, then a token
CommentTexts ==
    UNION {{Repeat(123, d) \o Repeat(125, d) \o <<97>>,
            Repeat(123, d) \o <<10>> \o Repeat(125, d) \o <<10, 60, 61>>,
            <<10, 32>> \o Repeat(123, d) \o <<10>> \o Repeat(125, d - 1),
            <<123, 125, 32>> \o Repeat(123, d) \o Repeat(125, d - 1) \o <<10>>}
           : d \in 1 .. MaxNest}

\* 214748364, the digits of INT_MAX without the last one
IntMaxPrefix == <<50, 49, 52, 55, 52, 56, 51, 54, 52>>

DigitChars == {48, 49, 57}

\* digit runs: short ones, and ones around INT_MAX, with and without leading
\* zeros, at the end of the file or before a letter
DigitRuns ==
    UNION {[1 .. k -> DigitChars] : k \in 1 .. MaxDigits}
    \cup {IntMaxPrefix \o <<d>> : d \in 48 .. 57}
    \cup {<<48, 48>> \o IntMaxPrefix \o <<d>> : d \in 48 .. 57}
    \cup {IntMaxPrefix \o <<d, e>> : d \in {48, 55, 56}, e \in {48, 57}}
    \cup {Repeat(57, 10), Repeat(57, 12), <<50, 49, 52, 55, 52, 56, 51, 54, 53, 48>>,
          <<51>> \o Repeat(48, 9), <<49>> \o Repeat(48, 9)}

NumberTexts == DigitRuns \cup {r \o <<97>> : r \in DigitRuns}

\* what may stand between the quotes: a, backslash, n, t, z, quote, tab, a
\* byte above 127
BodyChars == {97, 92, 110, 116, 122, 34, 9, 233}

StringTexts ==
    {<<34>> \o b \o <<34>> : b \in UNION {[1 .. k -> BodyChars] : k \in 0 .. MaxBody}}

Inputs == Texts \cup CommentTexts \cup NumberTexts \cup StringTexts

\* what the bytes before the misplaced terminator of a string may hold
Garbage == {<<>>, <<63>>}

ScanInit ==
    /\ pc = "start"
    /\ SymbolTableInit
    /\ CodeGenInit
    /\ ParserInit(FALSE)
    /\ \E text \in Inputs : src = File(text)
    /\ sc = scanner_static
    /\ files = NoOutput
    /\ hashed = NoHashes(ht_init.size)
    /\ st_last = Call("init", <<>>, NoProp, FALSE, NoProp)

ScanOutcome(s) ==
    /\ pc' = IF s.err # "" THEN "aborted" ELSE "scan"
    /\ SetSC(s)
    /\ UNCHANGED <<symvars, closed_names, cgvars, psvars, files, hashed, st_last>>

\* main(): init_scanner(src_file)
ScanOpen ==
    /\ pc = "start"
    /\ ScanOutcome(init_scanner(SC))

\* get_token(&token), until it has returned the end of the file
ScanToken ==
    /\ pc = "scan"
    /\ sc.token.type # "TOKEN_EOF"
    /\ \E g \in Garbage : ScanOutcome(get_token(SC, g))

ScanNext == ScanOpen \/ ScanToken

ScanSpec == ScanInit /\ [][ScanNext]_vars

\* ---------------------------------------------------------------------------
\* shift_hash on its own: the keys over two letters, shortest first, are hashed
\* one after the other for a table of one of the sizes getsize gives.
MaxKeyLen == 4

KeyChars == <<97, 98, 99>>

\* the size of a new table and the sizes after one and two rehashes
TableSizes ==
    {ht_init.size,
     getsize_loop(ht_init.size, INITIAL_DELTA_INDEX),
     getsize_loop(getsize_loop(ht_init.size, INITIAL_DELTA_INDEX), INITIAL_DELTA_INDEX)}

RECURSIVE KeyOf(_, _)
\* the n-th key of length len
KeyOf(len, n) ==
    IF len = 0 THEN <<>>
    ELSE Append(KeyOf(len - 1, n \div Len(KeyChars)), KeyChars[(n % Len(KeyChars)) + 1])

RECURSIVE KeysOfLength(_)
KeysOfLength(len) == IF len = 0 THEN 1 ELSE Len(KeyChars) * KeysOfLength(len - 1)

HashInit ==
    /\ pc = "hashing"
    /\ SymbolTableInit
    /\ CodeGenInit
    /\ ParserInit(FALSE)
    /\ src = File(<<>>)
    /\ sc = scanner_static
    /\ files = NoOutput
    /\ \E size \in TableSizes : hashed = NoHashes(size)
    /\ st_last = Call("init", <<>>, NoProp, FALSE, NoProp)

\* hash = shift_hash(key, size)
HashKey ==
    /\ pc = "hashing"
    /\ hashed.len <= MaxKeyLen
    /\ hashed' = [hashed EXCEPT
                    !.table = @ \cup {[key |-> KeyOf(hashed.len, hashed.n),
                                       hash |-> shift_hash(KeyOf(hashed.len, hashed.n),
                                                           hashed.size)]},
                    !.n = IF hashed.n + 1 < KeysOfLength(hashed.len) THEN @ + 1 ELSE 0,
                    !.len = IF hashed.n + 1 < KeysOfLength(hashed.len) THEN @ ELSE @ + 1]
    /\ UNCHANGED <<pc, symvars, closed_names, cgvars, psvars, src, sc, files, st_last>>

\* every key has been hashed
HashDone ==
    /\ pc = "hashing"
    /\ hashed.len > MaxKeyLen
    /\ pc' = "hashed"
    /\ UNCHANGED <<symvars, closed_names, cgvars, psvars, iovars, st_last>>

HashNext == HashKey \/ HashDone

HashSpec == HashInit /\ [][HashNext]_vars

\* ---------------------------------------------------------------------------
\* ht_insert on its own: distinct keys of one and two letters are inserted, in
\* any order, into the table ht_init made; hashed.table is what was inserted.
MaxInserts == 10

\* how far from the first key not yet inserted the next key is taken
MaxAhead == 3

\* the keys a, b, c and aa, ab, ..., cc
TableKeys ==
    [n \in 1 .. KeysOfLength(1) + KeysOfLength(2) |->
        IF n <= KeysOfLength(1) THEN KeyOf(1, n - 1) ELSE KeyOf(2, n - 1 - KeysOfLength(1))]

\* the keys of the table's entries so far
Inserted == {e.key : e \in hashed.table}

\* the keys the next ht_insert is called with: one of the first keys not yet
\* inserted
NextKeys ==
    {TableKeys[n] : n \in {m \in DOMAIN TableKeys :
        /\ TableKeys[m] \notin Inserted
        /\ Cardinality({l \in 1 .. m - 1 : TableKeys[l] \notin Inserted}) < MaxAhead}}

\* the value inserted with a key
ValueOf(key) == idprop(TYPE_INTEGER, key[1] + Len(key), 0, <<>>)

TableInit ==
    /\ pc = "table"
    /\ IoInit
    /\ CodeGenInit
    /\ ParserInit(FALSE)
    /\ SymbolTableInit
    /\ st_last = Call("init", <<>>, NoProp, FALSE, NoProp)

\* ht_insert returned, or followed a garbage next_ptr and did not
TableInsertDone(key, r) ==
    /\ pc' = IF r.crash THEN "crashed" ELSE "table"
    /\ heap' = IF r.crash THEN heap ELSE [heap EXCEPT ![table] = r.ht]
    /\ hashed' = IF r.crash THEN hashed
                 ELSE [hashed EXCEPT !.table = @ \cup {[key |-> key, value |-> ValueOf(key)]},
                                     !.n = @ + 1]
    /\ st_last' = Call("ht_insert", key, ValueOf(key), ~r.crash, NoProp)
    /\ UNCHANGED <<alive, table, saved_table, curr_offset, closed_names, cgvars, psvars,
                   src, sc, files>>

\* ht_insert(ht, key, value) with a key that was not inserted before
TableInsert ==
    /\ pc = "table"
    /\ hashed.n < MaxInserts
    /\ \E key \in NextKeys, u \in BOOLEAN :
         TableInsertDone(key, ht_insert(heap[table], key, ValueOf(key), u))

TableNext == TableInsert

TableSpec == TableInit /\ [][TableNext]_vars

MaxFuncs == 1

MaxParams == 3

MaxVardefs == 1

MaxStmts == 1

FuncNames == {<<102>>, <<103>>}

Types == {TYPE_INTEGER, TYPE_BOOLEAN}

ParamDecls == {Decl(<<97>>, TYPE_INTEGER), Decl(<<110>>, TYPE_BOOLEAN), Decl(<<102>>, TYPE_INTEGER)}

ParamLists == UNION {[1 .. k -> ParamDecls] : k \in 0 .. MaxParams}

VardefIds == {<<id>> : id \in Ids} \cup {<<<<97>>, <<110>>>>, <<<<97>>, <<97>>>>}

\* the scope that holds the subroutines
GlobalScope == IF SubOpen THEN saved_table ELSE table

\* is a name free to be declared: not bound in the global scope
Free(id) == GlobalScope \in alive /\ ~BoundIn(heap[GlobalScope], id)

\* variant: the process goes on after a fatal error
ParseOutcome_goes_on(r, then) ==
    /\ pc' = IF Status(r) \in {"ok", "aborted"} THEN then ELSE Status(r)
    /\ SetST(IF Status(r) = "crashed" THEN ST ELSE r.st)
    /\ SetCG(IF Status(r) = "crashed" THEN CG ELSE r.cg)
    /\ closed_names' = {}
    /\ files' = IF Status(r) = "aborted" THEN [files EXCEPT !.errors = @ + 1] ELSE files
    /\ UNCHANGED <<src, sc, hashed>>

\* a handler that crashed leaves the process dead and the memory as it was; a
\* fatal error is reported and ends the process
ParseOutcome(r, then) ==
    /\ pc' = IF Status(r) = "ok" THEN then ELSE Status(r)
    /\ SetST(IF Status(r) = "crashed" THEN ST ELSE r.st)
    /\ SetCG(IF Status(r) = "crashed" THEN CG ELSE r.cg)
    /\ closed_names' = {}
    /\ files' = IF Status(r) = "aborted" THEN [files EXCEPT !.errors = @ + 1] ELSE files
    /\ UNCHANGED <<src, sc, hashed>>

\* main(): the units are initialised, parse_source has read "source" <id>
ParseInit ==
    /\ pc = "funcs"
    /\ IoInit
    /\ SymbolTableInit
    /\ CodeGenInit
    /\ \E garbage \in BOOLEAN : ParserInit(garbage)
    /\ st_last = Call("init", <<>>, NoProp, FALSE, NoProp)

ParseFuncdefDone(fname, params, to, rt, r) ==
    /\ ParseOutcome(r, "fbody")
    /\ return_type' = IF to THEN SET_AS_CALLABLE(rt) ELSE return_type
    /\ fd_prev' = prev_after(fd_prev, params)
    /\ fd' = Header(fname, to, Len(params),
                    Free(fname) /\ \A i \in 1 .. Len(params) : Free(params[i].id))
    /\ decl' = params
    /\ nfuncs' = nfuncs + 1
    /\ nvardefs' = 0
    /\ nstmts' = 0
    /\ ctl' = <<>>
    /\ st_last' = Call("funcdef", fname, NoProp, Status(r) = "ok", NoProp)

\* parse_source: the token is "function"
ParseFuncdef ==
    /\ pc = "funcs"
    /\ nfuncs < MaxFuncs
    /\ \E fname \in FuncNames, params \in ParamLists, to \in BOOLEAN, u \in BOOLEAN :
         ParseFuncdefDone(fname, params, to, TYPE_INTEGER,
                          parse_funcdef(ST, CG, fd_prev, fname, params, to, TYPE_INTEGER, u))

\* parse_funcdef: the body has been read
ParseFuncdefEnd ==
    /\ pc = "fbody"
    /\ ctl = <<>>
    /\ ParseOutcome(parse_funcdef_end(ST, CG), "funcs")
    /\ st_last' = Call("funcdef_end", fd.name, NoProp, FALSE, NoProp)
    /\ UNCHANGED psvars

\* parse_source: the token is "begin"
ParseMain ==
    /\ pc = "funcs"
    /\ ParseOutcome(Handled(ST, init_subroutine_codegen(CG, MainName,
                                                         idprop(TYPE_CALLABLE, 0, 0, <<>>)),
                            FALSE), "mbody")
    /\ fd' = Header(MainName, FALSE, 0, TRUE)
    /\ decl' = <<>>
    /\ nvardefs' = 0
    /\ nstmts' = 0
    /\ st_last' = Call("main", MainName, NoProp, FALSE, NoProp)
    /\ UNCHANGED <<return_type, fd_prev, nfuncs, ctl>>

\* parse_source: main's body has been read
ParseMainEnd ==
    /\ pc = "mbody"
    /\ ctl = <<>>
    /\ \E w \in BOOLEAN :
         ParseOutcome(Handled(ST, close_subroutine_codegen(gen_1(CG, JVM_RETURN, w),
                                                           get_variables_width(ST)),
                              FALSE), "done")
    /\ st_last' = Call("main_end", MainName, NoProp, FALSE, NoProp)
    /\ UNCHANGED psvars

ParseVardefDone(type, ids, r) ==
    /\ ParseOutcome(Handled(r.st, CG, ~r.ok), pc)
    /\ decl' = decl \o [i \in 1 .. r.read |-> Decl(ids[i], type)]
    /\ nvardefs' = nvardefs + 1
    /\ st_last' = Call("vardef", ids[1], NoProp, r.ok, NoProp)
    /\ UNCHANGED <<return_type, fd_prev, fd, nfuncs, nstmts, ctl>>

\* parse_body: the token is a type
ParseVardef ==
    /\ pc \in {"fbody", "mbody"}
    /\ nstmts = 0
    /\ nvardefs < MaxVardefs
    /\ \E type \in Types, ids \in VardefIds, u \in BOOLEAN :
         ParseVardefDone(type, ids, parse_vardef(ST, type, ids, u))

\* a statement was read; bound tells whether every find_name it made succeeded
ParseStmtDone(op, id, cg, bound) ==
    /\ ParseOutcome(Handled(ST, cg, FALSE), pc)
    /\ nstmts' = nstmts + 1
    /\ st_last' = Call(op, id, NoProp, bound, NoProp)
    /\ UNCHANGED <<return_type, fd_prev, fd, decl, nfuncs, nvardefs, ctl>>

\* parse_statement: <id> ":=" 0 and <id> ":=" <id>
ParseAssign ==
    /\ pc \in {"fbody", "mbody"}
    /\ nstmts < MaxStmts
    /\ \E id \in Ids, w \in BOOLEAN :
         \/ ParseStmtDone("assign", id, parse_assign(ST, CG, id, Num(0), w),
                          find_name(ST, id, NoProp).found)
         \/ ParseStmtDone("assign", id, parse_assign(ST, CG, id, Var(id), w),
                          find_name(ST, id, NoProp).found)

\* parse_statement: "call" <id> "(" ")"
ParseCall ==
    /\ pc \in {"fbody", "mbody"}
    /\ nstmts < MaxStmts
    /\ \E id \in Ids, w \in BOOLEAN :
         ParseStmtDone("call", id, parse_call(ST, CG, id, w), find_name(ST, id, NoProp).found)

\* parse_statement: "get" <id>
ParseInput ==
    /\ pc \in {"fbody", "mbody"}
    /\ nstmts < MaxStmts
    /\ \E id \in Ids, w \in BOOLEAN :
         ParseStmtDone("input", id, parse_input(ST, CG, id, w), find_name(ST, id, NoProp).found)

\* the scanner or expect() finds something the grammar does not allow
ParseError ==
    /\ pc \in {"funcs", "fbody", "mbody"}
    /\ \E kind \in {"lexical", "syntactic"} :
         /\ ParseOutcome(Handled(ST, CG, TRUE), pc)
         /\ st_last' = Call(kind, <<>>, NoProp, FALSE, NoProp)
    /\ UNCHANGED psvars

\* main(): make_code_file(), after parse_source has returned
MakeCodeFile ==
    /\ pc = "done"
    /\ \E opened \in BOOLEAN, g \in BOOLEAN :
         /\ pc' = IF opened THEN "listed" ELSE "failed"
         /\ files' = IF opened
                     THEN [files EXCEPT !.listing = dump_code(CG, g), !.written = @ + 1]
                     ELSE [files EXCEPT !.failures = @ + 1]
    /\ st_last' = Call("make_code_file", <<>>, NoProp, FALSE, NoProp)
    /\ UNCHANGED <<symvars, closed_names, cgvars, psvars, src, sc, hashed>>

\* main(): assemble(jasmin_path)
Assemble ==
    /\ pc = "listed"
    /\ \E forked \in BOOLEAN, ok \in BOOLEAN :
         /\ pc' = IF forked /\ ok THEN "assembled" ELSE "failed"
         /\ files' = [files EXCEPT !.assembled = IF forked THEN @ + 1 ELSE @,
                                   !.failures = IF forked /\ ok THEN @ ELSE @ + 1]
    /\ st_last' = Call("assemble", <<>>, NoProp, FALSE, NoProp)
    /\ UNCHANGED <<symvars, closed_names, cgvars, psvars, src, sc, hashed>>

ParseNext ==
    \/ ParseFuncdef \/ ParseFuncdefEnd \/ ParseMain \/ ParseMainEnd
    \/ ParseVardef \/ ParseAssign \/ ParseCall \/ ParseInput
    \/ ParseError \/ MakeCodeFile \/ Assemble

ParseSpec == ParseInit /\ [][ParseNext]_vars

\* ---------------------------------------------------------------------------
\* The statements that place labels: a program of at most one function
\* "function f()" and the top-level body, whose statements are if / elsif /
\* else, while and leave over number literals, then the listing.
MaxStmtFuncs == 2

MaxBodyStmts == 2

MaxElsif == 1

\* if, elsif and while start only while get_label's counter is at most this
MaxLabel == 6

Less == Expr(Num(0), JVM_IF_ICMPLT, Num(1))

Exprs == {Expr(Num(0), NoRelop, Num(0)), Less}

StmtOutcome(op, cg, frames, n) ==
    /\ ParseOutcome(Handled(ST, cg, FALSE), pc)
    /\ ctl' = frames
    /\ nstmts' = n
    /\ st_last' = Call(op, <<>>, NoProp, FALSE, NoProp)
    /\ UNCHANGED <<return_type, fd_prev, fd, decl, nfuncs, nvardefs>>

\* parse_source: the token is "function"; the header is f() for the first
\* function and g() for the second, with or without "to"
StmtFuncdef ==
    /\ pc = "funcs"
    /\ nfuncs < MaxStmtFuncs
    /\ \E to \in BOOLEAN, u \in BOOLEAN :
         ParseFuncdefDone(<<102 + nfuncs>>, <<>>, to, TYPE_INTEGER,
                          parse_funcdef(ST, CG, fd_prev, <<102 + nfuncs>>, <<>>, to,
                                        TYPE_INTEGER, u))

\* parse_statement: "if" <expr> "then"
StmtIf ==
    /\ pc \in {"fbody", "mbody"}
    /\ label <= MaxLabel
    /\ nstmts < MaxBodyStmts
    /\ \E e \in Exprs, w \in BOOLEAN :
         StmtOutcome("if", parse_if(ST, CG, e, w),
                     Append(ctl, Frame("if", label, label + 1, label + 2, "then", 0)),
                     nstmts + 1)

\* parse_if: the statements of a branch have been read and "elsif" follows
StmtElsif ==
    /\ pc \in {"fbody", "mbody"}
    /\ label <= MaxLabel
    /\ ctl # <<>>
    /\ ctl[Len(ctl)].kind = "if"
    /\ ctl[Len(ctl)].phase \in {"then", "elsif"}
    /\ ctl[Len(ctl)].elsifs < MaxElsif
    /\ \E w \in BOOLEAN :
         StmtOutcome("elsif",
                     parse_if_elsif(ST, parse_if_branch_end(CG, ctl[Len(ctl)], w), Less, w),
                     [ctl EXCEPT ![Len(ctl)].start = label, ![Len(ctl)].phase = "elsif",
                                 ![Len(ctl)].elsifs = @ + 1],
                     nstmts)

\* parse_if: the statements of a branch have been read and "else" follows
StmtElse ==
    /\ pc \in {"fbody", "mbody"}
    /\ ctl # <<>>
    /\ ctl[Len(ctl)].kind = "if"
    /\ ctl[Len(ctl)].phase \in {"then", "elsif"}
    /\ \E w \in BOOLEAN :
         StmtOutcome("else", parse_if_branch_end(CG, ctl[Len(ctl)], w),
                     [ctl EXCEPT ![Len(ctl)].phase = "else"], nstmts)

\* parse_if: "end", after a branch or after the statements of "else"
StmtIfEnd ==
    /\ pc \in {"fbody", "mbody"}
    /\ ctl # <<>>
    /\ ctl[Len(ctl)].kind = "if"
    /\ \E w \in BOOLEAN :
         StmtOutcome("if_end",
                     parse_if_end(IF ctl[Len(ctl)].phase = "else"
                                  THEN CG
                                  ELSE parse_if_branch_end(CG, ctl[Len(ctl)], w),
                                  ctl[Len(ctl)], w),
                     SubSeq(ctl, 1, Len(ctl) - 1), nstmts)

\* parse_statement: "while" <expr> "do"
StmtWhile ==
    /\ pc \in {"fbody", "mbody"}
    /\ label <= MaxLabel
    /\ nstmts < MaxBodyStmts
    /\ \E w \in BOOLEAN :
         StmtOutcome("while", parse_while(ST, CG, Less, w),
                     Append(ctl, Frame("while", label, label + 1, 0, "do", 0)),
                     nstmts + 1)

\* parse_while: the statements have been read, "end"
StmtWhileEnd ==
    /\ pc \in {"fbody", "mbody"}
    /\ ctl # <<>>
    /\ ctl[Len(ctl)].kind = "while"
    /\ \E w \in BOOLEAN :
         StmtOutcome("while_end", parse_while_end(CG, ctl[Len(ctl)], w),
                     SubSeq(ctl, 1, Len(ctl) - 1), nstmts)

\* parse_statement: "leave" <expr>
StmtLeave ==
    /\ pc \in {"fbody", "mbody"}
    /\ nstmts < MaxBodyStmts
    /\ \E w \in BOOLEAN :
         StmtOutcome("leave", parse_leave(ST, CG, Expr(Num(0), NoRelop, Num(0)), w),
                     ctl, nstmts + 1)

StmtNext ==
    \/ StmtFuncdef \/ ParseFuncdefEnd \/ ParseMain \/ ParseMainEnd
    \/ StmtIf \/ StmtElsif \/ StmtElse \/ StmtIfEnd \/ StmtWhile \/ StmtWhileEnd
    \/ StmtLeave \/ MakeCodeFile

StmtSpec == ParseInit /\ [][StmtNext]_vars

\* ---------------------------------------------------------------------------
\* The statements of the top-level body of
\*   source P
\*   function f(integer n) to integer begin leave n end
\*   begin integer x; boolean b; integer array a; boolean array c; ... end
\* The state after the declarations is computed with the parser's own
\* operators; the statements that follow are the actions.

\* function f(integer n) to integer begin
FunctionRead ==
    parse_funcdef(init_symbol_table, init_code_generation(cg_static),
                  [wild |-> FALSE, list |-> <<>>], <<102>>,
                  <<Decl(<<110>>, TYPE_INTEGER)>>, TRUE, TYPE_INTEGER, FALSE)

\* leave n end
FunctionClosed ==
    parse_funcdef_end(FunctionRead.st,
                      parse_leave(FunctionRead.st, FunctionRead.cg,
                                  Expr(Var(<<110>>), NoRelop, Var(<<110>>)), FALSE))

\* integer x; boolean b; integer array a; boolean array c
Declared ==
    parse_vardef(
        parse_vardef(
            parse_vardef(
                parse_vardef(FunctionClosed.st, TYPE_INTEGER, <<<<120>>>>, FALSE).st,
                TYPE_BOOLEAN, <<<<98>>>>, FALSE).st,
            SET_AS_ARRAY(TYPE_INTEGER), <<<<97>>>>, FALSE).st,
        SET_AS_ARRAY(TYPE_BOOLEAN), <<<<99>>>>, FALSE).st

CodeInit ==
    /\ pc = "mbody"
    /\ IoInit
    /\ heap = Declared.heap
    /\ alive = Declared.alive
    /\ table = Declared.table
    /\ saved_table = Declared.saved_table
    /\ curr_offset = Declared.curr_offset
    /\ closed_names = {}
    /\ bodies = FunctionClosed.cg.bodies
    /\ body_heap = FunctionClosed.cg.body_heap
    /\ code = NoCode
    /\ code_size = INITIAL_SIZE
    /\ ip = 0
    /\ stack_depth = 0
    /\ max_stack_depth = 0
    /\ function_name = MainName
    /\ cg_idprop = idprop(TYPE_CALLABLE, 0, 0, <<>>)
    /\ label = FunctionClosed.cg.label
    /\ return_type = SET_AS_CALLABLE(TYPE_INTEGER)
    /\ fd_prev = [wild |-> FALSE, list |-> <<Decl(<<110>>, TYPE_INTEGER)>>]
    /\ fd = Header(MainName, FALSE, 0, TRUE)
    /\ decl = <<Decl(<<120>>, TYPE_INTEGER), Decl(<<98>>, TYPE_BOOLEAN),
                Decl(<<97>>, SET_AS_ARRAY(TYPE_INTEGER)),
                Decl(<<99>>, SET_AS_ARRAY(TYPE_BOOLEAN))>>
    /\ nfuncs = 1
    /\ nvardefs = 4
    /\ nstmts = 0
    /\ ctl = <<>>
    /\ st_last = Call("init", <<>>, NoProp, FALSE, NoProp)

\* the variables a statement names
Targets == {<<120>>, <<98>>, <<97>>, <<99>>}

\* the factors a statement reads
Factors ==
    {Num(7), Bool(1), Var(<<120>>), Var(<<97>>), Index(<<97>>, Num(0)),
     Apply(<<102>>, <<Num(7)>>), Apply(<<102>>, <<>>), Not(Bool(1)), Not(Var(<<98>>))}

\* what the local `type' of a statement may hold before anything wrote it
TypeGarbage == {TYPE_INTEGER, NoProp.type}

\* the code items a step appends
Emitted == SubSeq(code', Len(code) + 1, Len(code'))

\* a statement was read: the call, with the target and what it was given
CodeStmtDone(op, id, arg, cg) ==
    /\ ParseOutcome(Handled(ST, cg, FALSE), pc)
    /\ nstmts' = nstmts + 1
    /\ st_last' = [op |-> op, id |-> id, arg |-> arg, ret |-> FALSE, out |-> NoProp]
    /\ UNCHANGED <<return_type, fd_prev, fd, decl, nfuncs, nvardefs, ctl>>

\* <id> ":=" <factor>
CodeAssign ==
    /\ pc = "mbody"
    /\ nstmts < MaxBodyStmts
    /\ \E id \in Targets, rhs \in Factors, w \in BOOLEAN :
         CodeStmtDone("assign", id, rhs, parse_assign(ST, CG, id, rhs, w))

\* <id> "[" <simple> "]" ":=" <expr>
CodeAssignIndex ==
    /\ pc = "mbody"
    /\ nstmts < MaxBodyStmts
    /\ label <= MaxLabel
    /\ \E id \in Targets, e \in Exprs, w \in BOOLEAN :
         CodeStmtDone("assign_index", id, e.rhs, parse_assign_index(ST, CG, id, Num(0), e, w))

\* <id> ":=" "array" <simple>
CodeAssignArray ==
    /\ pc = "mbody"
    /\ nstmts < MaxBodyStmts
    /\ \E id \in Targets, w \in BOOLEAN :
         CodeStmtDone("assign_array", id, Num(7), parse_assign_array(ST, CG, id, Num(7), w))

\* "call" f "(" [<expr>] ")"
CodeCall ==
    /\ pc = "mbody"
    /\ nstmts < MaxBodyStmts
    /\ \E args \in {<<>>, <<Num(7)>>}, w \in BOOLEAN :
         CodeStmtDone("call", <<102>>, Apply(<<102>>, args),
                      parse_call_args(ST, CG, <<102>>, args, w))

\* "get" <id>
CodeGet ==
    /\ pc = "mbody"
    /\ nstmts < MaxBodyStmts
    /\ \E id \in Targets, w \in BOOLEAN :
         CodeStmtDone("get", id, Var(id), parse_input(ST, CG, id, w))

\* "put" <string> and "put" <factor> ["." <string>]
CodePut ==
    /\ pc = "mbody"
    /\ nstmts < MaxBodyStmts
    /\ \E w \in BOOLEAN :
         \/ CodeStmtDone("put", <<>>, Num(0),
                         parse_output(ST, CG, <<OutString(<<104, 105>>)>>, NoProp.type, w))
         \/ \E f \in Factors, type \in TypeGarbage, more \in BOOLEAN :
              CodeStmtDone("put", <<>>, f,
                           parse_output(ST, CG,
                                        <<OutExpr(Expr(f, NoRelop, f))>>
                                        \o (IF more THEN <<OutString(<<104, 105>>)>>
                                            ELSE <<>>),
                                        type, w))

CodeNext ==
    \/ CodeAssign \/ CodeAssignIndex \/ CodeAssignArray \/ CodeCall \/ CodeGet \/ CodePut
    \/ StmtIf \/ StmtElse \/ StmtIfEnd \/ StmtWhile \/ StmtWhileEnd \/ StmtLeave
    \/ ParseMainEnd

CodeSpec == CodeInit /\ [][CodeNext]_vars

(* ------------------------------ claims --------------------------------- *)

\* C1: whenever insert_name(id, prop) returned true, a find_name(id) made next,
\* in the same scope, finds exactly the prop that was inserted.
C1_InsertThenFind ==
    (pc = "run" /\ st_last.op = "insert" /\ st_last.ret) =>
        LET r == find_name(ST, st_last.id, NoProp)
        IN  r.found /\ r.prop = st_last.arg

\* C2: with a subroutine scope open, find_name returns that scope's binding if it
\* has one, else the global binding if that is callable, else not found; with no
\* subroutine scope open it answers from the global scope alone.
C2_FindNameRule ==
    (pc = "run" /\ st_last.op = "find") =>
        LET id == st_last.id
            act == heap[table]
        IN  IF BoundIn(act, id)
            THEN st_last.ret /\ st_last.out = BindingOf(act, id)
            ELSE IF SubOpen /\ BoundIn(heap[saved_table], id)
                    /\ IS_CALLABLE_TYPE(BindingOf(heap[saved_table], id).type)
            THEN st_last.ret /\ st_last.out = BindingOf(heap[saved_table], id)
            ELSE ~st_last.ret

\* C2 witness: inside a subroutine a lookup hit a global variable and said not found
C2_Witness ==
    /\ pc = "run" /\ st_last.op = "find" /\ SubOpen /\ ~st_last.ret
    /\ ~BoundIn(heap[table], st_last.id)
    /\ BoundIn(heap[saved_table], st_last.id)

\* C3 (as claimed): after close_subroutine, a name that was inserted into the
\* closed scope and is not bound to a callable in the outer (global) scope, which
\* saved_table still names, is not found.
C3_ClosedNotFound_Original ==
    (pc = "run" /\ st_last.op = "close") =>
        \A id \in closed_names :
            ~(BoundIn(heap[saved_table], id)
              /\ IS_CALLABLE_TYPE(BindingOf(heap[saved_table], id).type))
                => ~find_name(ST, id, NoProp).found

\* C3 (amended): after close_subroutine, a name that was inserted into the closed
\* scope and is not bound at all in the outer (global) scope is not found.
C3_ClosedNotFound ==
    (pc = "run" /\ st_last.op = "close") =>
        \A id \in closed_names :
            ~BoundIn(heap[saved_table], id) => ~find_name(ST, id, NoProp).found

\* C3 witness: a scope with a name the global scope does not bind was closed
C3_Witness ==
    /\ pc = "run" /\ st_last.op = "close"
    /\ \E id \in closed_names : ~BoundIn(heap[saved_table], id)

\* C4: open_subroutine fails exactly when the name is bound in the global scope;
\* a failure changes nothing, a success saves the previous scope, makes a fresh
\* empty scope the active one and sets curr_offset to 0.
C4_OpenSubroutine ==
    [][(pc' = "run" /\ st_last'.op = "open") =>
         /\ st_last'.ret = ~BoundIn(heap[table], st_last'.id)
         /\ ~st_last'.ret => UNCHANGED <<heap, alive, table, saved_table, curr_offset>>
         /\ st_last'.ret =>
              /\ saved_table' = table
              /\ table' # table /\ table' \notin alive
              /\ Bindings(heap'[table']) = {}
              /\ curr_offset' = 0]_vars

C4_Witness ==
    /\ pc = "run" /\ st_last.op = "open" /\ ~st_last.ret
    /\ saved_table # NULL /\ curr_offset > 0

\* no name is declared twice in a list of declarations
NoDup(d) == \A i, j \in 1 .. Len(d) : i # j => d[i].id # d[j].id

\* the variable (non-callable) bindings of the table a handle names
VarsOf(hp, al, h) ==
    IF h \in al THEN {e \in Bindings(hp[h]) : IS_VARIABLE(e.value.type)} ELSE {}

\* C5: for a function definition with a "to" clause and n >= 0 parameters (new
\* names, no duplicates), the header is accepted, the i-th declared name of the
\* function (the n parameters in declaration order, then the locals) is bound in
\* the function's scope at offset i-1 with its declared type, and the function's
\* IDprop has nparams = n and the parameter types in declaration order.
C5_ParamsThenLocals ==
    (/\ st_last.op \in {"funcdef", "vardef"}
     /\ fd.name # MainName /\ fd.to /\ fd.valid
     /\ NoDup(decl)
     /\ \A i \in 1 .. Len(decl) : decl[i].id # fd.name) =>
        /\ pc = "fbody"
        /\ \A i \in 1 .. Len(decl) :
             /\ BoundIn(heap[table], decl[i].id)
             /\ BindingOf(heap[table], decl[i].id) = idprop(decl[i].type, i - 1, 0, <<>>)
        /\ BoundIn(heap[saved_table], fd.name)
        /\ BindingOf(heap[saved_table], fd.name).nparams = fd.nparams
        /\ BindingOf(heap[saved_table], fd.name).params
             = [i \in 1 .. fd.nparams |-> decl[i].type]

\* C6: in the top-level body, with or without function definitions before it,
\* the k-th variable declared gets offset k (slot 0 is reserved), and main's
\* variables_width is 1 + the number of variables declared in main.
C6_MainOffsets ==
    /\ (pc = "mbody" /\ NoDup(decl)) =>
          \A k \in 1 .. Len(decl) :
              /\ BoundIn(heap[table], decl[k].id)
              /\ BindingOf(heap[table], decl[k].id).offset = k
    /\ pc = "done" =>
          body_heap[Len(body_heap)].variables_width = 1 + Len(decl)

\* C7 (as claimed): every binding held in the global scope is a callable one.
C7_GlobalOnlyCallables == VarsOf(heap, alive, GlobalScope) = {}

\* C7 (amended): a step that ends with a subroutine scope open adds no variable
\* or parameter to the global scope: those enter the global scope only while no
\* subroutine scope is open (as the variables of the top-level body do).
C7_NoGlobalVarsWhileSubOpen ==
    [][SubOpen' => VarsOf(heap', alive', GlobalScope') \subseteq VarsOf(heap, alive, GlobalScope)]_vars

\* C7 witness: a subroutine scope is open and holds the parameters and locals
\* declared so far, and the global scope holds none of them
C7_Witness ==
    /\ pc = "fbody" /\ SubOpen /\ st_last.op = "vardef"
    /\ Cardinality(VarsOf(heap, alive, table)) >= 2
    /\ VarsOf(heap, alive, GlobalScope) = {}

\* C8: after a statement that used an identifier for which find_name failed (as
\* assignment target, call target, input target or factor) the parser does not
\* go on with the body: the compilation has stopped.
C8_UnboundIsFatal ==
    (st_last.op \in {"assign", "call", "input"} /\ ~st_last.ret) =>
        pc \notin {"fbody", "mbody"}

\* C9: once a name has been declared twice in one body (two parameters, two
\* variables, or a variable named like a parameter) the compilation has stopped
\* with the fatal error "multiple defenition".
C9_DuplicateIsFatal ==
    (st_last.op \in {"funcdef", "vardef"} /\ ~NoDup(decl)) => pc = "aborted"

\* C10: after k >= 1 init_subroutine_codegen / close_subroutine_codegen pairs the
\* list walked from bodies through next holds exactly the k completed bodies,
\* each once, in the order in which they were closed.
C10_BodyListComplete ==
    (pc \in {"idle", "hung"} /\ Len(body_heap) >= 1) =>
        /\ pc = "idle"
        /\ body_list(body_heap, bodies) = [i \in 1 .. Len(body_heap) |-> i]

RECURSIVE depth_before(_, _)
\* the running stack_depth before item k of a body's code: the net effect
\* (push - pop) of every instruction item before it
depth_before(c, k) ==
    IF k <= 1 THEN 0
    ELSE depth_before(c, k - 1)
         + (IF "CODE_INSTRUCTION" \in c[k - 1].type
            THEN instruction_set[c[k - 1].code + 1].push
                 - instruction_set[c[k - 1].code + 1].pop
            ELSE 0)

\* the running stack_depth immediately after the push part of each instruction
AfterPush(c) ==
    {depth_before(c, k) + instruction_set[c[k].code + 1].push :
        k \in {j \in 1..Len(c) : "CODE_INSTRUCTION" \in c[j].type}}

IsPeak(m, c) ==
    /\ m >= 0
    /\ \A v \in AfterPush(c) : m >= v
    /\ AfterPush(c) # {} => m \in AfterPush(c)

RECURSIVE Count(_, _, _)
\* how many of the first n characters of text are c
Count(c, text, n) ==
    IF n = 0 THEN 0 ELSE Count(c, text, n - 1) + (IF text[n] = c THEN 1 ELSE 0)

\* the index of the character the scanner is looking at (one past the end at EOF)
Pos(s) == IF s.ch = EOF THEN Len(s.file) + 1 ELSE s.off

RECURSIVE TokenStart(_, _)
\* the index of the first character at or after i that is not whitespace
TokenStart(text, i) ==
    IF i <= Len(text) /\ text[i] \in {32, 9, 10} THEN TokenStart(text, i + 1) ELSE i

\* the character at index i, EOF past the end
CharAt(text, i) == IF i >= 1 /\ i <= Len(text) THEN text[i] ELSE EOF

\* line and column of the character at index i
LineOf(text, i) == 1 + Count(10, text, i - 1)

RECURSIVE ColOf(_, _)
ColOf(text, i) == IF i <= 1 \/ text[i - 1] = 10 THEN 1 ELSE 1 + ColOf(text, i - 1)

RECURSIVE Advance(_, _)
\* n calls of next_char
Advance(s, n) == IF n = 0 THEN s ELSE Advance(next_char(s), n - 1)

\* C14: after scanning an input up to and including end of file, position.line
\* is one plus the number of newline characters consumed, wherever the newlines
\* are (a newline as the last character included).
C14_LineCountsNewlines ==
    (pc = "scan" /\ sc.token.type = "TOKEN_EOF") =>
        sc.line = 1 + Count(10, src.file, src.off)

RECURSIVE StripZeros(_)
StripZeros(d) == IF Len(d) > 1 /\ Head(d) = 48 THEN StripZeros(Tail(d)) ELSE d

RECURSIVE ToDigits(_)
\* the decimal digits of a value
ToDigits(v) == IF v < 10 THEN <<48 + v>> ELSE Append(ToDigits(v \div 10), 48 + (v % 10))

RECURSIVE DigitRun(_, _)
\* the maximal run of digits that starts at index i
DigitRun(text, i) ==
    IF i <= Len(text) /\ isdigit(text[i]) THEN <<text[i]>> \o DigitRun(text, i + 1) ELSE <<>>

\* is the value of a digit run without leading zeros at most INT_MAX: by length,
\* then digit by digit
AtMostIntMax(d) ==
    \/ Len(d) < 10
    \/ /\ Len(d) = 10
       /\ strcmp(d, Append(IntMaxPrefix, 55)) <= 0

\* C15: a maximal run of decimal digits is accepted exactly when its value is at
\* most INT_MAX, the token's value is then the decimal value of the run, and
\* no step of the accumulation exceeds INT_MAX (every prefix of an accepted run
\* has a value of at most INT_MAX); every other run is the fatal error
\* "number too large".
C15_NumberRange ==
    [][(pc = "scan" /\ isdigit(CharAt(src.file, TokenStart(src.file, Pos(SC)))))
       => IF AtMostIntMax(StripZeros(DigitRun(src.file, TokenStart(src.file, Pos(SC)))))
          THEN /\ sc'.err = ""
               /\ sc'.token.type = "TOKEN_NUMBER"
               /\ sc'.token.value <= INT_MAX
               /\ ToDigits(sc'.token.value)
                    = StripZeros(DigitRun(src.file, TokenStart(src.file, Pos(SC))))
               /\ Pos([file |-> src'.file, off |-> src'.off, ch |-> sc'.ch])
                    = TokenStart(src.file, Pos(SC))
                      + Len(DigitRun(src.file, TokenStart(src.file, Pos(SC))))
          ELSE /\ sc'.err = "number too large"
               /\ pc' = "aborted"]_vars

\* the run 2147483647 has been read
C15_Witness ==
    /\ pc = "scan"
    /\ sc.token.type = "TOKEN_NUMBER"
    /\ sc.token.value = INT_MAX
    /\ src.file = Append(IntMaxPrefix, 55)

RECURSIVE LegalString(_, _)
\* from index i inside a string literal up to its closing quote: every byte is
\* printable and every backslash is followed by n, t, a double quote or a
\* backslash
LegalString(text, i) ==
    IF i > Len(text) THEN FALSE
    ELSE IF text[i] = 34 THEN TRUE
    ELSE IF ~isprint(text[i]) THEN FALSE
    ELSE IF text[i] = 92
    THEN /\ CharAt(text, i + 1) \in {110, 116, 34, 92}
         /\ LegalString(text, i + 2)
    ELSE LegalString(text, i + 1)

\* C16: in a string literal a backslash followed by c is accepted exactly when c
\* is n, t, a double quote or a backslash, every other escape is fatal, and the
\* literal is accepted only if every byte between the quotes is printable.
C16_StringEscapes ==
    [][(pc = "scan" /\ CharAt(src.file, TokenStart(src.file, Pos(SC))) = 34)
       => (sc'.err = "" <=> LegalString(src.file, TokenStart(src.file, Pos(SC)) + 1))]_vars

RECURSIVE CommentEnd(_, _, _)
\* the index of the brace that closes the comment opened before index i, where
\* depth braces are open; 0 when the file ends first
CommentEnd(text, i, depth) ==
    IF i > Len(text) THEN 0
    ELSE IF text[i] = 125
    THEN IF depth = 1 THEN i ELSE CommentEnd(text, i + 1, depth - 1)
    ELSE IF text[i] = 123 THEN CommentEnd(text, i + 1, depth + 1)
    ELSE CommentEnd(text, i + 1, depth)

\* how many braces are open at the end of the file
OpenAtEof(text, i) == Count(123, text, Len(text)) - Count(123, text, i - 1)
                      - (Count(125, text, Len(text)) - Count(125, text, i - 1))

\* what get_token leaves in the scanner's variables
Scanned(s) ==
    [ch |-> s.ch, column_number |-> s.column_number, last_read |-> s.last_read,
     line |-> s.line, col |-> s.col, t |-> s.t, token |-> s.token, err |-> s.err]

\* C17: get_token skips a balanced comment of any nesting depth and returns the
\* token that follows it; when the file ends with exactly one closing brace
\* missing the error is "comment not closed" at the line and column of the
\* outermost opening brace.
C17_Comments ==
    [][(pc = "scan" /\ CharAt(src.file, TokenStart(src.file, Pos(SC))) = 123)
       => IF CommentEnd(src.file, TokenStart(src.file, Pos(SC)) + 1, 1) # 0
          THEN \E g \in Garbage :
                 sc' = Scanned(get_token(
                           Advance(SC, CommentEnd(src.file,
                                                  TokenStart(src.file, Pos(SC)) + 1, 1)
                                       + 1 - Pos(SC)), g))
          ELSE /\ sc'.err = "comment not closed"
               /\ pc' = "aborted"
               /\ OpenAtEof(src.file, TokenStart(src.file, Pos(SC))) = 1
                    => /\ sc'.line = LineOf(src.file, TokenStart(src.file, Pos(SC)))
                       /\ sc'.col = ColOf(src.file, TokenStart(src.file, Pos(SC)))]_vars

\* a comment with a closed comment inside it, opened on line 2 and never closed
C17_Witness ==
    /\ pc = "aborted"
    /\ sc.err = "comment not closed"
    /\ src.file = <<10, 32, 123, 123, 10, 125>>
    /\ sc.line = 2
    /\ sc.col = 2

\* the token that starts with c when c2 follows it, and its length
Operator(c, c2) ==
    IF c = 60 /\ c2 = 61 THEN [type |-> "TOKEN_LESS_EQUAL", len |-> 2]
    ELSE IF c = 60 /\ c2 = 62 THEN [type |-> "TOKEN_NOT_EQUAL", len |-> 2]
    ELSE IF c = 60 THEN [type |-> "TOKEN_LESS_THAN", len |-> 1]
    ELSE IF c = 62 /\ c2 = 61 THEN [type |-> "TOKEN_GREATER_EQUAL", len |-> 2]
    ELSE IF c = 62 THEN [type |-> "TOKEN_GREATER_THAN", len |-> 1]
    ELSE IF c = 61 THEN [type |-> "TOKEN_EQUAL", len |-> 1]
    ELSE IF c = 58 /\ c2 = 61 THEN [type |-> "TOKEN_GETS", len |-> 2]
    ELSE [type |-> "", len |-> 0]

\* the scanner stands at index p: on the character there, or, if that one is a
\* space, on the one after it
StandsAt(text, off, ch, p) ==
    \/ Pos([file |-> text, off |-> off, ch |-> ch]) = p
    \/ /\ CharAt(text, p) = 32
       /\ Pos([file |-> text, off |-> off, ch |-> ch]) = p + 1

C18_Step(i) ==
    IF Operator(CharAt(src.file, i), CharAt(src.file, i + 1)).len = 0
    THEN /\ sc'.err = "illegal character"
         /\ sc'.t = 58
         /\ pc' = "aborted"
    ELSE /\ sc'.err = ""
         /\ sc'.token.type = Operator(CharAt(src.file, i), CharAt(src.file, i + 1)).type
         /\ StandsAt(src'.file, src'.off, sc'.ch,
                     i + Operator(CharAt(src.file, i), CharAt(src.file, i + 1)).len)

\* C18: <, <=, <>, >, >=, = and := are seven different token kinds recognised
\* by longest match, a colon without = after it is the error illegal character
\* ':', and no character of the token that follows is consumed.
C18_Operators ==
    [][(pc = "scan" /\ CharAt(src.file, TokenStart(src.file, Pos(SC))) \in {60, 62, 61, 58})
       => C18_Step(TokenStart(src.file, Pos(SC)))]_vars

\* "<=a": the token is <= and the scanner stands on the a
C18_Witness ==
    /\ pc = "scan"
    /\ src.file = <<60, 61, 97>>
    /\ sc.token.type = "TOKEN_LESS_EQUAL"
    /\ sc.ch = 97

RECURSIVE ByteSum(_)
ByteSum(key) == IF key = <<>> THEN 0 ELSE Head(key) + ByteSum(Tail(key))

\* C20: with its unsigned 32-bit wraparound shift_hash depends on the order of
\* the characters: it is not a function of the length and the byte sum alone,
\* so among the keys hashed there are two of the same length and byte sum
\* (permutations of each other) with different hash values.
C20_HashDependsOnOrder ==
    pc = "hashed" =>
        \E r1, r2 \in hashed.table :
            /\ Len(r1.key) = Len(r2.key)
            /\ ByteSum(r1.key) = ByteSum(r2.key)
            /\ r1.hash # r2.hash

\* ---------------------------------------------------------------------------
\* the claims about labels and the listing

\* the positions of c where label l is placed
PlacedAt(c, l) == {i \in 1 .. Len(c) : c[i].type = {"CODE_LABEL"} /\ c[i].num = l}

\* the label ids c places
PlacedIn(c) == {c[i].num : i \in {j \in 1 .. Len(c) : c[j].type = {"CODE_LABEL"}}}

\* the label ids that are the operand of a branch in c
BranchedTo(c) ==
    {c[i].num : i \in {j \in 1 .. Len(c) : c[j].type = {"CODE_LABEL", "CODE_OPERAND"}}}

\* C12: within any one closed body each label id that is the operand of a branch
\* is placed by gen_label exactly once in that same body, and no label id is
\* placed in two different bodies
C12_LabelsPlacedOnce ==
    /\ \A b \in 1 .. Len(body_heap) :
          \A l \in BranchedTo(body_heap[b].code) :
              Cardinality(PlacedAt(body_heap[b].code, l)) = 1
    /\ \A a \in 1 .. Len(body_heap) : \A b \in 1 .. Len(body_heap) :
          a # b => PlacedIn(body_heap[a].code) \cap PlacedIn(body_heap[b].code) = {}

\* the body the i-th method of the listing was written from
Listed(i) == body_heap[body_list(body_heap, bodies)[i]]

\* how many no-ops the method has after the lines of its code items
TrailingNops(m, b) ==
    Cardinality({k \in 3 + b.ip + 1 .. Len(m.lines) : m.lines[k].text = "\tnop\n"})

\* C13: for every completed body the listing has exactly one trailing no-op
\* after the last code item if and only if that item is a placed label, a body
\* with no code items gets none, and only the code items with index in [0, ip)
\* are read
C13_TrailingNop ==
    files.written = 1 =>
        \A i \in 1 .. Len(files.listing) :
            /\ TrailingNops(files.listing[i], Listed(i))
                 = (IF Listed(i).ip > 0
                       /\ Listed(i).code[Listed(i).ip].type = {"CODE_LABEL"}
                    THEN 1 ELSE 0)
            /\ files.listing[i].read \subseteq 0 .. Listed(i).ip - 1

\* a step that writes the listing
ListingWritten == files'.written # files.written

\* C19: the listing is serialized at most once and only after parse_source has
\* returned without any fatal error; whenever a lexical, syntactic or semantic
\* error is reported, compilation stops at that first error, no listing is
\* written and the assembler is not invoked
C19_ListingAfterParse ==
    /\ [](files.written <= 1)
    /\ [][ListingWritten => pc = "done" /\ files.errors = 0 /\ files.written = 0]_vars
    /\ [](files.errors >= 1 =>
            /\ files.errors = 1
            /\ pc = "aborted"
            /\ files.written = 0
            /\ files.assembled = 0)
    /\ [][files.errors = 0]_vars

\* a program with a function was parsed, listed and assembled
C19_Witness ==
    /\ pc = "assembled"
    /\ files.written = 1
    /\ files.errors = 0
    /\ Len(files.listing) = 2

\* ---------------------------------------------------------------------------
\* the claims about whole programs and the code emitted for them

\* C21: close_subroutine_codegen terminates for every number of previously
\* completed bodies, so the compilation of a program with any number of
\* functions goes on to the listing: no call of it ends in the loop that never
\* returns
C21_CloseTerminates == ~(pc = "hung" /\ st_last.op = "close_subroutine_codegen")

\* C22: every close_subroutine is matched by a successful open_subroutine that
\* has not been closed yet: close_subroutine never frees the global scope, and
\* whenever no function body is being parsed the global scope (the table
\* init_symbol_table made) is the active scope
C22_GlobalScopeKept ==
    /\ init_symbol_table.table \in alive
    /\ pc \in {"funcs", "mbody", "done", "listed", "assembled"} =>
          table = init_symbol_table.table

\* the last code item of a body is a return instruction
EndsInReturn(b) ==
    /\ b.ip > 0
    /\ b.code[b.ip].type = {"CODE_INSTRUCTION"}
    /\ instruction_set[b.code[b.ip].code + 1].instr \in {"return", "ireturn", "areturn"}

\* C23: every completed body, the top-level body and every function body
\* alike, ends in a return instruction emitted after its statements, so control
\* cannot run off the end of a method
C23_BodiesEndInReturn == \A b \in 1 .. Len(body_heap) : EndsInReturn(body_heap[b])

\* a statement of the given kind has just been read and the parser goes on
StatementRead(op) == pc' = "mbody" /\ nstmts' = nstmts + 1 /\ st_last'.op = op

\* the offset of a declared variable
OffsetOf(id) == find_name(ST, id, NoProp).prop.offset

\* the items end in a scalar store to the offset
EndsInScalarStore(items, offset) ==
    /\ Len(items) >= 2
    /\ items[Len(items) - 1] = CodeItem({"CODE_INSTRUCTION"}, JVM_ISTORE, 0, <<>>)
    /\ items[Len(items)] = CodeItem({"CODE_OPERAND", "CODE_INTEGER"}, 0, offset, <<>>)

\* the items are the load of the array reference at the offset, the code of
\* the subscript 0, code for the right-hand side, and an array store
IsArrayStore(items, offset) ==
    /\ Len(items) >= 5
    /\ SubSeq(items, 1, 4) =
           <<CodeItem({"CODE_INSTRUCTION"}, JVM_ALOAD, 0, <<>>),
             CodeItem({"CODE_OPERAND", "CODE_INTEGER"}, 0, offset, <<>>),
             CodeItem({"CODE_INSTRUCTION"}, JVM_LDC, 0, <<>>),
             CodeItem({"CODE_OPERAND", "CODE_INTEGER"}, 0, 0, <<>>)>>
    /\ items[Len(items)] = CodeItem({"CODE_INSTRUCTION"}, JVM_IASTORE, 0, <<>>)

\* C24: an assignment emits an array store exactly when its target is
\* subscripted, after the load of the array reference, the subscript and the
\* right-hand side; an assignment whose target is not subscripted emits a
\* scalar store to the target's offset, whatever the declared type of the target
C24_StoreBySubscript ==
    [][/\ StatementRead("assign") => EndsInScalarStore(Emitted, OffsetOf(st_last'.id))
       /\ StatementRead("assign_index") => IsArrayStore(Emitted, OffsetOf(st_last'.id))]_vars

\* the declared type of a variable
TypeOf(id) == find_name(ST, id, NoProp).prop.type

\* the element-type tag of a declared type
TagOf(type) == IF IS_BOOLEAN_TYPE(type) THEN T_BOOLEAN ELSE T_INT

\* the items end in the allocation of an array with the tag and the store of
\* its reference to the offset
EndsInAllocation(items, atype, offset) ==
    /\ Len(items) >= 4
    /\ SubSeq(items, Len(items) - 3, Len(items)) =
           <<CodeItem({"CODE_INSTRUCTION"}, JVM_NEWARRAY, 0, <<>>),
             CodeItem({"CODE_OPERAND", "CODE_ARRAY_TYPE"}, 0, atype, <<>>),
             CodeItem({"CODE_INSTRUCTION"}, JVM_ASTORE, 0, <<>>),
             CodeItem({"CODE_OPERAND", "CODE_INTEGER"}, 0, offset, <<>>)>>

\* C25: for id := array <simple> with id
\* declared as an array, the allocation carries the tag of id's declared
\* element type (the boolean tag for a boolean array, the int tag for an
\* integer array) and is followed by the store of the array reference to id's
\* offset
C25_AllocationTag ==
    [][StatementRead("assign_array") /\ IS_ARRAY_TYPE(TypeOf(st_last'.id)) =>
           EndsInAllocation(Emitted, TagOf(TypeOf(st_last'.id)), OffsetOf(st_last'.id))]_vars

\* the table sizes getsize gives, from the size ht_init sets: 13, 31, 61, 127
SizeSequence ==
    {ht_init.size, 2 * 2 * 2 * 2 * 2 - 1, 2 * 2 * 2 * 2 * 2 * 2 - 3,
     2 * 2 * 2 * 2 * 2 * 2 * 2 - 1}

\* ht_search finds exactly the keys that were inserted, with their values
FindsInserted(ht) ==
    \A n \in DOMAIN TableKeys :
        LET key == TableKeys[n]
            s == ht_search(ht, key, NoProp)
        IN  /\ ~s.crash
            /\ s.found <=> key \in Inserted
            /\ s.found => [key |-> key, value |-> s.value] \in hashed.table

\* C26: after any sequence of ht_insert calls with distinct keys, over zero or
\* more rehashes, ht_search finds every inserted key with its value and no
\* other key, every bucket chain is finite and ends in NULL, and the size of
\* the table is one of 13, 31, 61, 127, ...
C26_TableSound ==
    pc \in {"table", "crashed"} =>
        /\ heap[table].wild = {}
        /\ pc = "table"
        /\ FindsInserted(heap[table])
        /\ heap[table].size \in SizeSequence

\* C27: the assert(FALSE) branches of gen_print and gen_read are not reached
\* by any program the parser accepts: parse_output hands gen_print, and
\* parse_input hands gen_read, the scalar boolean or the scalar integer type
\* only, also for array variables and for the results of function calls, so no
\* get and no put stops the compiler
C27_AssertsUnreachable == st_last.op \in {"get", "put"} => pc # "crashed"

\* the code items parse_factor appends for a factor in the current state
FactorCode(f) ==
    SubSeq(parse_factor(ST, CG, f, TRUE).code, Len(code) + 1,
           Len(parse_factor(ST, CG, f, TRUE).code))

\* the items begin with the given ones and go on after them
ProperPrefix(head, items) ==
    /\ Len(items) > Len(head)
    /\ SubSeq(items, 1, Len(head)) = head

\* C28: for every factor F the code emitted for `not F' is the code for F
\* followed by instructions that negate its 0/1 value, so `not F' and F do not
\* leave the same value on the stack: here for x := not F, whose code ends in
\* the two items of the store to x
C28_NotNegates ==
    [][StatementRead("assign") /\ st_last'.id = <<120>> /\ st_last'.arg.kind = "not" =>
           ProperPrefix(FactorCode(st_last'.arg.arg[1]),
                        SubSeq(Emitted, 1, Len(Emitted) - 2))]_vars

\* a statement without statements inside has just been read
SimpleStatementRead ==
    /\ pc = "mbody"
    /\ pc' = "mbody"
    /\ st_last'.op \in {"assign", "assign_index", "assign_array", "call", "get", "put",
                        "leave"}

\* the "end" of an if or a while that is not inside another statement has just
\* been read
OuterStatementRead ==
    /\ pc = "mbody"
    /\ pc' = "mbody"
    /\ st_last'.op \in {"if_end", "while_end"}
    /\ ctl' = <<>>

\* C30: after the code of any complete statement (assign, call, if, get,
\* leave, put, while) has been emitted the running stack_depth is what it was
\* before the statement (0 for a statement of the body itself), so it is 0 at
\* the end of every body and max_stack_depth does not grow with the number of
\* statements
C30_StatementsBalanced ==
    [][/\ SimpleStatementRead => stack_depth' = stack_depth
       /\ OuterStatementRead => stack_depth' = 0]_vars

\* The operand stack of the target machine.  A static call pops one value for
\* every parameter of the descriptor "C.f(II)I" and pushes the result unless
\* the descriptor ends in V; the print invocations pop the stream and the
\* value and push nothing; every other instruction pops and pushes what
\* instruction_set says.
Parameters(string) ==
    Cardinality({n \in 1 .. Len(string) :
                    /\ string[n] = 73
                    /\ \E o \in 1 .. n - 1 : string[o] = 40
                    /\ \E c \in n + 1 .. Len(string) : string[c] = 41})

RealPop(items, i) ==
    IF items[i].code = JVM_INVOKEVIRTUAL THEN 2
    ELSE IF items[i].code = JVM_INVOKESTATIC THEN Parameters(items[i + 1].string)
    ELSE instruction_set[items[i].code + 1].pop

RealPush(items, i) ==
    IF items[i].code = JVM_INVOKEVIRTUAL THEN 0
    ELSE IF items[i].code = JVM_INVOKESTATIC
    THEN (IF items[i + 1].string[Len(items[i + 1].string)] = 86 THEN 0 ELSE 1)
    ELSE instruction_set[items[i].code + 1].push

\* the places of a label in the items, with the depth d on arrival
Landing(items, l, d) ==
    {[i |-> n, d |-> d] : n \in {m \in 1 .. Len(items) :
                                    items[m].type = {"CODE_LABEL"} /\ items[m].num = l}}

\* where the machine is after the instruction at i, which leaves depth d:
\* nowhere after a return, at the label after a goto, at the label or at the
\* next item after a conditional branch
Moves(items, i, d) ==
    IF instruction_set[items[i].code + 1].instr \in {"return", "ireturn", "areturn"} THEN {}
    ELSE IF items[i].code = JVM_GOTO THEN Landing(items, items[i + 1].num, d)
    ELSE IF items[i].code \in JVM_IFEQ .. JVM_IFEQ + 6
    THEN Landing(items, items[i + 1].num, d) \cup {[i |-> i + 1, d |-> d]}
    ELSE {[i |-> i + 1, d |-> d]}

\* where the machine is after item i, reached with depth d; depths above cap
\* count as cap, and an instruction that finds too few values does not execute
After(items, cap, i, d) ==
    IF i > Len(items) THEN {}
    ELSE IF items[i].type # {"CODE_INSTRUCTION"} THEN {[i |-> i + 1, d |-> d]}
    ELSE IF d < RealPop(items, i) THEN {}
    ELSE IF d - RealPop(items, i) + RealPush(items, i) > cap THEN Moves(items, i, cap)
    ELSE Moves(items, i, d - RealPop(items, i) + RealPush(items, i))

RECURSIVE Reached(_, _, _, _)
\* every item the machine can be at, with every depth it can have there
Reached(items, cap, seen, new) ==
    IF new = {} THEN seen
    ELSE Reached(items, cap, seen \cup new,
                 UNION {After(items, cap, e.i, e.d) : e \in new} \ (seen \cup new))

\* no execution of the body's code has more than its max_stack_depth values
\* on the operand stack
LimitCovers(b) ==
    \A e \in Reached(SubSeq(b.code, 1, b.ip), b.max_stack_depth + 1, {},
                     {[i |-> 1, d |-> 0]}) :
        e.d <= b.max_stack_depth

\* C29: for every body the max_stack_depth that is written as .limit stack is
\* at least the greatest depth the operand stack reaches when the body's code
\* runs with the real stack effects of the target machine
C29_LimitCoversStack == \A b \in 1 .. Len(body_heap) : LimitCovers(body_heap[b])

====
